---- MODULE Spec2Model ----
(***************************************************************************)
(* CallAlly API: the tenant store (users, businesses, calls, usage         *)
(* records), the onboarding wizard and its "complete" saga, the dashboard  *)
(* PATCH, and the two webhook receivers (billing events, voice-AI events). *)
(* Every request handler of src/api/routers is one action; the provider    *)
(* adapters (src/api/services) are the environment, their answers are      *)
(* inputs of the action that calls them.                                   *)
(***************************************************************************)
EXTENDS Integers, Sequences, FiniteSets, TLC

VARIABLES
    users,      \* set of User rows (a user's id is its unique email)
    biz,        \* sequence of Business rows; a row's id is its position
    calls,      \* sequence of Call rows
    usage,      \* sequence of UsageRecord rows
    appts,      \* sequence of Appointment rows
    nAppt,      \* Appointment ids issued so far
    clock,      \* the server's time, in hours
    tokens,     \* the access tokens issued so far
    nAsst,      \* assistants created at the voice-AI provider so far
    nCust,      \* customers created at the billing provider so far
    last,       \* the response to the request handled last
    reqs,       \* voice-AI end-of-call requests in flight, by connection
    rate_limiter, \* the RateLimiter object: requests by key, and its lock
    traffic,    \* the wall clock in seconds, the requests in the rate-limit
                \* middleware by connection, and the checks decided so far
    env         \* the process environment the application was started with

vars == <<users, biz, calls, usage, appts, nAppt, clock, tokens, nAsst, nCust, last, reqs,
          rate_limiter, traffic, env>>

\* the client addresses the rate limiter keeps lists for
ClientIps == {"10.0.0.1", "10.0.0.2"}

\* RateLimiter.__init__: no request recorded for any key, lock free
NewRateLimiter == [requests |-> [key \in ClientIps |-> <<>>], lock |-> {}]

\* no request has reached the rate-limit middleware yet
NoTraffic == [now |-> 0, at |-> <<>>, checked |-> <<>>]

\* os.getenv defaults: no admin secret configured, not deployed to production
DefaultEnv == [ADMIN_SECRET |-> "", RAILWAY_ENVIRONMENT |-> ""]

(***************************************************************************)
(* Values                                                                  *)
(***************************************************************************)
\* Python's None / SQL NULL
NULL == "NULL"
\* a key that a JSON body or a PATCH does not carry
ABSENT == "ABSENT"

\* Python truthiness of an optional string: None and "" are falsy
Truthy(v) == v # NULL /\ v # ""

Range(f) == {f[i] : i \in DOMAIN f}

\* dict.get(key, default)
Get(d, k, default) == IF d[k] = ABSENT THEN default ELSE d[k]

\* the email addresses of the users that sign up
Emails == {"owner@x.com"}

\* ids handed out by the providers: fresh on every creation
AsstId(n) == "asst_" \o ToString(n)
PhoneId(aid) == "ph_" \o aid
PhoneNumber(aid) == "+1415_" \o aid
CustId(n) == "cus_" \o ToString(n)

\* provider creations the model follows before the provider only fails
MaxAsst == 2
MaxCust == 2

(***************************************************************************)
(* Tenant store rows                                                       *)
(***************************************************************************)
\* Business(...) as signup constructs it, the other columns at their defaults
NewBusiness(uid, name, email) ==
    [ user_id            |-> uid,
      name               |-> name,
      industry           |-> NULL,
      notification_email |-> email,
      onboarding_step    |-> 1,
      status             |-> "onboarding",
      vapi_assistant_id  |-> NULL,
      vapi_phone_id      |-> NULL,
      vapi_phone_number  |-> NULL,
      stripe_customer_id |-> NULL,
      subscription_plan  |-> NULL,
      subscription_status |-> NULL,
      trial_ends_at      |-> NULL ]

\* business ids a request may name: the rows the store can hold, and one it cannot
BizIds == 1 .. (Cardinality(Emails) + 1)

\* a lookup by id alone, whoever owns the row
get_business_for_user_AnyOwner(business_id, user) ==
    IF business_id \in 1 .. Len(biz) THEN business_id ELSE 0

\* select(Business).where(id == business_id, user_id == user.id).scalar_one_or_none()
get_business_for_user(business_id, user) ==
    IF business_id \in 1 .. Len(biz) /\ biz[business_id].user_id = user
    THEN business_id
    ELSE 0

\* what a handler answers: the endpoint, the status code, the Business the
\* request resolved to (0: none), the adapter calls made, the response body
Response(op, code, bid, trace, out) ==
    [op |-> op, code |-> code, biz |-> bid, trace |-> trace, out |-> out]

\* before any request
NoRequest == [op |-> "none", code |-> 0, biz |-> 0, called |-> FALSE]

\* what "last" keeps of a response: the endpoint, the code, the Business, and
\* whether the handler called a provider adapter
Digest(resp) ==
    [op |-> resp.op, code |-> resp.code, biz |-> resp.biz,
     called |-> resp.trace # <<>>]

(***************************************************************************)
(* POST /api/auth/signup                                                   *)
(***************************************************************************)
SignupNames == {"Acme"}

(***************************************************************************)
(* AuthService: access tokens (python-jose, HS256)                         *)
(***************************************************************************)
\* config.JWT_SECRET, and a key that is not the configured one
JWT_SECRET == "jwt_secret"
OtherKey == "other_key"

\* config.JWT_EXPIRATION_HOURS = 24 * 7
JWT_EXPIRATION_HOURS == 168

\* the exceptions jwt.decode raises, all of them JWTError or a subclass of it
JWTErrors == {"JWTError", "ExpiredSignatureError", "JWTClaimsError"}

\* the HS256 signature of a payload under a key
HS256(payload, key) == <<"HS256", payload, key>>

\* jwt.encode(payload, key, algorithm="HS256"): three segments, the last the
\* signature of the first two
jwt_encode(payload, key) ==
    [segments |-> 3, payload |-> payload, signature |-> HS256(payload, key)]

\* jwt.decode(token, key, algorithms=["HS256"]) at time now: the payload, or
\* the exception raised
jwt_decode(token, key, now) ==
    IF token.segments # 3
    THEN [raised |-> "JWTError", payload |-> <<>>]
    ELSE IF token.signature # HS256(token.payload, key)
    THEN [raised |-> "JWTError", payload |-> <<>>]
    ELSE IF token.payload.exp < now
    THEN [raised |-> "ExpiredSignatureError", payload |-> <<>>]
    ELSE [raised |-> NULL, payload |-> token.payload]

\* AuthService.create_access_token(user_id) at time now
create_access_token(user_id, now) ==
    jwt_encode([sub |-> user_id, exp |-> now + JWT_EXPIRATION_HOURS,
                iat |-> now, type |-> "access"], JWT_SECRET)

\* a verify_token whose except clause names ExpiredSignatureError alone
verify_token_CatchesExpiryOnly(token, now) ==
    LET d == jwt_decode(token, JWT_SECRET, now) IN
    IF d.raised = "ExpiredSignatureError" THEN NULL
    ELSE IF d.raised # NULL THEN "raised"
    ELSE Get(d.payload, "sub", NULL)

\* AuthService.verify_token(token) at time now: the user id, None, or
\* "raised" when an exception leaves the function
verify_token(token, now) ==
    LET d == jwt_decode(token, JWT_SECRET, now) IN
    IF d.raised \in JWTErrors THEN NULL
    ELSE IF d.raised # NULL THEN "raised"
    ELSE Get(d.payload, "sub", NULL)

\* AuthService.hash_password, AuthService.verify_password (bcrypt)
hash_password(password) == <<"bcrypt", password>>
verify_password(password, password_hash) == password_hash = hash_password(password)

\* User(id=uuid4(), email=..., password_hash=...); is_active defaults to True
NewUser(email, password) ==
    [email |-> email, password_hash |-> hash_password(password), is_active |-> TRUE]

\* the ids of the User rows
UserIds == { u.email : u \in users }

\* the passwords the sign-ups of the sequential system carry
SignupPasswords == {"pw1"}

signup(email, password, business_name) ==
    IF email \in UserIds
    THEN [users |-> users, biz |-> biz,
          resp |-> Response("signup", 400, 0, <<>>, NULL)]
    ELSE [users |-> users \cup {NewUser(email, password)},
          biz |-> Append(biz, NewBusiness(email, business_name, email)),
          resp |-> Response("signup", 200, Len(biz) + 1, <<>>, NULL)]

Signup ==
    \E email \in Emails, password \in SignupPasswords, business_name \in SignupNames :
        LET r == signup(email, password, business_name) IN
        /\ users' = r.users
        /\ biz' = r.biz
        /\ tokens' = IF r.resp.code = 200
                     THEN tokens \cup {create_access_token(email, clock)}
                     ELSE tokens
        /\ last' = Digest(r.resp)
        /\ UNCHANGED <<rate_limiter, traffic, env, clock, appts, nAppt, calls, usage, nAsst, nCust, reqs>>

(***************************************************************************)
(* POST /api/onboarding/{business_id}/step                                 *)
(***************************************************************************)
Industries == {"hvac"}

\* the step numbers and the step data the model sends
StepNumbers == {1, 5}

StepData(step) ==
    IF step = 1
    THEN [ business_name      : {ABSENT, NULL, ""},
           industry           : {ABSENT} \cup Industries,
           notification_email : {ABSENT} ]
    ELSE [ business_name      : {ABSENT},
           industry           : {ABSENT},
           notification_email : {ABSENT} \cup Emails ]

apply_step_data(b, step, data) ==
    IF step = 1
    THEN [b EXCEPT !.name = Get(data, "business_name", b.name),
                   !.industry = Get(data, "industry", NULL)]
    ELSE IF step = 5
    THEN [b EXCEPT !.notification_email = Get(data, "notification_email", NULL)]
    ELSE b

\* a step save that sets the counter whatever it was
StepSaved_AlwaysSets(b, step, data) ==
    [apply_step_data(b, step, data) EXCEPT !.onboarding_step = step + 1]

\* the row a step save builds: the step's data, then the step counter
StepSaved(b, step, data) ==
    LET b1 == apply_step_data(b, step, data) IN
    IF step >= b1.onboarding_step
    THEN [b1 EXCEPT !.onboarding_step = step + 1]
    ELSE b1

\* businesses.name is NOT NULL: a commit of a row without a name fails
CommitOK(b) == b.name # NULL

save_onboarding_step(business_id, user, step, data) ==
    LET bid == get_business_for_user(business_id, user) IN
    IF bid = 0
    THEN [biz |-> biz, resp |-> Response("step", 404, 0, <<>>, NULL)]
    ELSE IF biz[bid].status = "active"
    THEN [biz |-> biz, resp |-> Response("step", 400, bid, <<>>, NULL)]
    ELSE LET b2 == StepSaved(biz[bid], step, data) IN
             IF CommitOK(b2)
             THEN [biz |-> [biz EXCEPT ![bid] = b2],
                   resp |-> Response("step", 200, bid, <<>>, NULL)]
             ELSE [biz |-> biz, resp |-> Response("step", 500, bid, <<>>, NULL)]

SaveOnboardingStep ==
    \E business_id \in BizIds, user \in UserIds, step \in StepNumbers :
      \E data \in StepData(step) :
        LET r == save_onboarding_step(business_id, user, step, data) IN
        /\ biz' = r.biz
        /\ last' = Digest(r.resp)
        /\ UNCHANGED <<rate_limiter, traffic, env, clock, tokens, appts, nAppt, users, calls, usage, nAsst, nCust, reqs>>

(***************************************************************************)
(* POST /api/onboarding/{business_id}/complete                             *)
(***************************************************************************)
\* What the adapter calls of one run come back with is a record o: o.a for
\* create_assistant, o.p for provision_phone_number, o.c for create_customer,
\* o.s for create_subscription, o.m for send_welcome_email. "ok": the value;
\* "none": None; "raise": an exception; "skip": the call is not made. The
\* phone adapter answers "full" (id and number) or "id_only" (no number).
NoCalls == [a |-> "skip", p |-> "skip", c |-> "skip", s |-> "skip", m |-> "skip"]

\* the dict create_subscription returns for a trial subscription
TrialSubscription == [status |-> "trialing", trial_end |-> "dt_1600"]

\* step 1: vapi.create_assistant(business)
SagaAssistant(b, a, aid) ==
    IF a = "ok" /\ Truthy(aid)
    THEN [row |-> [b EXCEPT !.vapi_assistant_id = aid], errors |-> <<>>]
    ELSE [row |-> b, errors |-> <<"assistant">>]

\* step 2: vapi.provision_phone_number(business.vapi_assistant_id)
SagaPhone(b, p) ==
    IF Truthy(b.vapi_assistant_id) /\ p \in {"full", "id_only"}
    THEN [b EXCEPT !.vapi_phone_id = PhoneId(b.vapi_assistant_id),
                   !.vapi_phone_number =
                       IF p = "full" THEN PhoneNumber(b.vapi_assistant_id) ELSE NULL]
    ELSE b

\* a billing step that drops the customer id when the subscription fails
SagaBilling_Compensating(b, c, cid, s) ==
    IF c = "ok" /\ Truthy(cid) /\ s = "ok"
    THEN [row |-> [b EXCEPT !.stripe_customer_id = cid,
                            !.subscription_plan = "starter",
                            !.subscription_status = TrialSubscription.status,
                            !.trial_ends_at = TrialSubscription.trial_end],
          errors |-> <<>>]
    ELSE [row |-> b, errors |-> <<"billing">>]

\* steps 3 and 4: stripe.create_customer, then stripe.create_subscription
SagaBilling(b, c, cid, s) ==
    IF c = "ok" /\ Truthy(cid)
    THEN LET b1 == [b EXCEPT !.stripe_customer_id = cid] IN
         IF s = "ok"
         THEN [row |-> [b1 EXCEPT !.subscription_plan = "starter",
                                  !.subscription_status = TrialSubscription.status,
                                  !.trial_ends_at = TrialSubscription.trial_end],
               errors |-> <<>>]
         ELSE [row |-> b1, errors |-> <<"subscription">>]
    ELSE [row |-> b, errors |-> <<"customer">>]

\* a run that sends the welcome email before it commits
SagaTrace_MailFirst(b1, b3, c, cid) ==
    <<"create_assistant">>
    \o (IF Truthy(b1.vapi_assistant_id) THEN <<"provision_phone_number">> ELSE <<>>)
    \o <<"create_customer">>
    \o (IF c = "ok" /\ Truthy(cid) THEN <<"create_subscription">> ELSE <<>>)
    \o (IF Truthy(b3.notification_email) THEN <<"send_welcome_email">> ELSE <<>>)
    \o <<"commit">>

\* the adapter calls of one run, in the order the handler makes them
SagaTrace(b1, b3, c, cid) ==
    <<"create_assistant">>
    \o (IF Truthy(b1.vapi_assistant_id) THEN <<"provision_phone_number">> ELSE <<>>)
    \o <<"create_customer">>
    \o (IF c = "ok" /\ Truthy(cid) THEN <<"create_subscription">> ELSE <<>>)
    \o <<"commit">>
    \o (IF Truthy(b3.notification_email) THEN <<"send_welcome_email">> ELSE <<>>)

\* a saga that aborts, leaving the status alone, when it has no assistant
SagaFinalStatus_AbortWithoutAssistant(b, errors) ==
    IF Truthy(b.vapi_assistant_id) THEN "active" ELSE b.status

\* the status the saga persists at its end, whatever errors it collected
SagaFinalStatus(b, errors) == "active"

\* OnboardingCompleteResponse
CompleteResponse(b, message) ==
    [ success      |-> TRUE,
      phone_number |-> b.vapi_phone_number,
      assistant_id |-> b.vapi_assistant_id,
      message      |-> message ]

\* the saga on row b0: the adapters answer o, the providers' next ids are
\* aid and cid
RunSaga(b0, o, aid, cid) ==
    LET r1 == SagaAssistant(b0, o.a, aid)
        b2 == SagaPhone(r1.row, o.p)
        r3 == SagaBilling(b2, o.c, cid, o.s)
        mailed == Truthy(r3.row.notification_email)
        errors == r1.errors \o r3.errors
                  \o (IF mailed /\ o.m = "raise" THEN <<"email">> ELSE <<>>)
    IN  [ row    |-> [r3.row EXCEPT !.status = SagaFinalStatus(r3.row, errors)],
          errors |-> errors,
          trace  |-> SagaTrace(r1.row, r3.row, o.c, cid) ]

\* an early return that tests for a status value no Business ever has
AlreadyComplete_WrongLiteral(b) == b.status = "complete"

\* an early return that lets a Business without a phone number run again
AlreadyComplete_UnlessPhoneMissing(b) ==
    b.status = "active" /\ Truthy(b.vapi_phone_number)

\* whether the handler returns at once with the stored result
AlreadyComplete(b) == b.status = "active"

\* a required wizard field is missing: a name or an industry that is falsy
MissingRequired_NameOnly(b) == ~Truthy(b.name)

MissingRequired(b) == ~Truthy(b.name) \/ ~Truthy(b.industry)

complete_onboarding(business_id, user, o) ==
    LET bid == get_business_for_user(business_id, user)
        same == [biz |-> biz, nAsst |-> nAsst, nCust |-> nCust]
    IN
    IF bid = 0
    THEN same @@ [resp |-> Response("complete", 404, 0, <<>>, NULL)]
    ELSE IF AlreadyComplete(biz[bid])
    THEN same @@ [resp |-> Response("complete", 200, bid, <<>>,
                     CompleteResponse(biz[bid], "Onboarding already complete"))]
    ELSE IF MissingRequired(biz[bid])
    THEN same @@ [resp |-> Response("complete", 400, bid, <<>>, NULL)]
    ELSE LET run == RunSaga(biz[bid], o, AsstId(nAsst + 1), CustId(nCust + 1)) IN
         [ biz   |-> [biz EXCEPT ![bid] = run.row],
           nAsst |-> IF o.a = "ok" THEN nAsst + 1 ELSE nAsst,
           nCust |-> IF o.c = "ok" THEN nCust + 1 ELSE nCust,
           resp  |-> Response("complete", 200, bid, run.trace,
                              CompleteResponse(run.row,
                                  IF run.errors = <<>> THEN "live" ELSE "issues")) ]

\* the outcomes the providers can give the adapter calls a run on row b makes;
\* they hand out at most MaxAsst assistants and MaxCust customers
RunOutcomes(b) ==
    UNION { { [a |-> a, p |-> p, c |-> c, s |-> s, m |-> m] :
                p \in IF a = "ok" \/ Truthy(b.vapi_assistant_id)
                      THEN {"full", "id_only", "none", "raise"} ELSE {"skip"},
                s \in IF c = "ok" THEN {"ok", "none", "raise"} ELSE {"skip"},
                m \in IF Truthy(b.notification_email)
                      THEN {"ok", "raise"} ELSE {"skip"} } :
            a \in {"none", "raise"} \cup (IF nAsst < MaxAsst THEN {"ok"} ELSE {}),
            c \in {"none", "raise"} \cup (IF nCust < MaxCust THEN {"ok"} ELSE {}) }

\* whether a request runs the saga (and so calls the adapters)
RunsSaga(business_id, user) ==
    LET bid == get_business_for_user(business_id, user) IN
    /\ bid # 0
    /\ ~AlreadyComplete(biz[bid])
    /\ ~MissingRequired(biz[bid])

CompleteOnboarding ==
    \E business_id \in BizIds, user \in UserIds :
      \E o \in IF RunsSaga(business_id, user)
                THEN RunOutcomes(biz[business_id]) ELSE {NoCalls} :
        LET r == complete_onboarding(business_id, user, o) IN
        /\ biz' = r.biz
        /\ nAsst' = r.nAsst
        /\ nCust' = r.nCust
        /\ last' = Digest(r.resp)
        /\ UNCHANGED <<rate_limiter, traffic, env, clock, tokens, appts, nAppt, users, calls, usage, reqs>>

(***************************************************************************)
(* PATCH /api/business/{business_id}                                       *)
(***************************************************************************)
\* BusinessUpdate: the fields of the request that are columns of Business
BusinessUpdate ==
    [ name     : {ABSENT, NULL, "Acme", ""},
      industry : {ABSENT, NULL} \cup Industries ]

\* for field, value in request.model_dump(exclude_unset=True).items(): setattr(...)
ApplyUpdate(b, request) ==
    [b EXCEPT !.name = Get(request, "name", b.name),
              !.industry = Get(request, "industry", b.industry)]

\* a PATCH that creates an assistant anew instead of updating the stored one
UpdateTrace_Recreate(b) == <<"create_assistant">>

\* the adapter call the PATCH makes after its commit
UpdateTrace(b) ==
    IF Truthy(b.vapi_assistant_id)
    THEN <<"update_assistant", b.vapi_assistant_id>>
    ELSE <<>>

update_business(business_id, user, request) ==
    LET bid == get_business_for_user(business_id, user) IN
    IF bid = 0
    THEN [biz |-> biz, resp |-> Response("patch", 404, 0, <<>>, NULL)]
    ELSE LET b1 == ApplyUpdate(biz[bid], request) IN
         IF CommitOK(b1)
         THEN [biz |-> [biz EXCEPT ![bid] = b1],
               resp |-> Response("patch", 200, bid, UpdateTrace(b1), NULL)]
         ELSE [biz |-> biz, resp |-> Response("patch", 500, bid, <<>>, NULL)]

UpdateBusiness ==
    \E business_id \in BizIds, user \in UserIds, request \in BusinessUpdate :
        LET r == update_business(business_id, user, request) IN
        /\ biz' = r.biz
        /\ last' = Digest(r.resp)
        /\ UNCHANGED <<rate_limiter, traffic, env, clock, tokens, appts, nAppt, users, calls, usage, nAsst, nCust, reqs>>

(***************************************************************************)
(* POST /api/webhooks/stripe                                               *)
(***************************************************************************)
\* config.STRIPE_WEBHOOK_SECRET, and a secret that is not the configured one
STRIPE_WEBHOOK_SECRET == "whsec_live"
ForgedSecret == "whsec_forged"

\* config.STRIPE_PRICES, in the order the dict is iterated
STRIPE_PRICES ==
    << [plan |-> "starter", price |-> "price_starter"],
       [plan |-> "professional", price |-> "price_professional"],
       [plan |-> "business", price |-> "price_business"] >>

\* the provider's signature over a payload: a keyed digest of the payload
Sign(secret, payload) == <<secret, payload>>

\* the event types that have a handler, and one that has none
HandledTypes ==
    { "customer.subscription.created", "customer.subscription.updated",
      "customer.subscription.deleted", "invoice.payment_succeeded",
      "invoice.payment_failed" }
EventTypes == HandledTypes \cup {"charge.refunded"}

EventCustomers == {ABSENT, CustId(1), CustId(2)}
\* the subscription status a created and an updated event carry
CreatedStatuses == {"active"}
UpdatedStatuses == {"past_due"}

\* event.data.object, by the fields the handlers read
Event(type, customer, status, trial_end, price) ==
    [type |-> type, customer |-> customer, status |-> status,
     trial_end |-> trial_end, price |-> price]

Events ==
    { Event("customer.subscription.created", c, st, t, ABSENT) :
        c \in EventCustomers, st \in CreatedStatuses, t \in {ABSENT, "1700"} }
    \cup
    { Event("customer.subscription.updated", c, st, ABSENT, pr) :
        c \in EventCustomers, st \in UpdatedStatuses,
        pr \in {ABSENT, "price_professional", "price_legacy"} }
    \cup
    { Event(ty, c, ABSENT, ABSENT, ABSENT) :
        ty \in EventTypes \ {"customer.subscription.created",
                             "customer.subscription.updated"},
        c \in EventCustomers }

\* a payload other than e, for a signature made over another body
OtherPayload(e) ==
    IF e.type = "invoice.payment_succeeded"
    THEN [e EXCEPT !.type = "invoice.payment_failed"]
    ELSE [e EXCEPT !.type = "invoice.payment_succeeded"]

\* the stripe-signature headers that are not the provider's for payload e:
\* none (<<>>), one made with another secret, one made over another payload
BadSignatureHeaders(e) ==
    { <<>>, Sign(ForgedSecret, e), Sign(STRIPE_WEBHOOK_SECRET, OtherPayload(e)) }

\* a request that carries event e under the provider's signature
Signed(e) == [payload |-> e, signature |-> Sign(STRIPE_WEBHOOK_SECRET, e)]

\* the events that are also sent without the provider's signature: those
\* that name the first customer and carry no field but the customer
UnsignedEvents == { e \in Events : e.customer = CustId(1) /\ e.status = ABSENT }

StripeRequests ==
    { Signed(e) : e \in Events }
    \cup UNION { { [payload |-> e, signature |-> h] : h \in BadSignatureHeaders(e) } :
                 e \in UnsignedEvents }

\* a verification that looks at the signing secret only, not at the payload
verify_webhook_signature_KeyOnly(payload, signature) ==
    IF signature[1] = STRIPE_WEBHOOK_SECRET
    THEN <<payload>>
    ELSE <<>>

\* stripe.Webhook.construct_event: the event, or None when the signature is
\* not the configured secret's signature of this payload
verify_webhook_signature(payload, signature) ==
    IF signature = Sign(STRIPE_WEBHOOK_SECRET, payload)
    THEN <<payload>>
    ELSE <<>>

\* datetime.fromtimestamp(ts)
FromTimestamp(ts) == "dt_" \o ts

\* result.scalar_one_or_none() over the rows S: a row id, 0 for none, -1 when
\* several rows match (MultipleResultsFound)
ScalarOneOrNone(S) ==
    IF S = {} THEN 0
    ELSE IF Cardinality(S) = 1 THEN CHOOSE x \in S : TRUE
    ELSE -1

\* select(Business).where(Business.stripe_customer_id == data.get("customer"))
\* (a comparison with None is rendered IS NULL)
BusinessByCustomer(rows, data) ==
    ScalarOneOrNone({ i \in 1 .. Len(rows) :
                        rows[i].stripe_customer_id = Get(data, "customer", NULL) })

handle_subscription_created(b, data) ==
    LET b1 == [b EXCEPT !.subscription_status = Get(data, "status", NULL)] IN
    IF data.trial_end # ABSENT
    THEN [b1 EXCEPT !.trial_ends_at = FromTimestamp(data.trial_end)]
    ELSE b1

\* the first plan, in the dict's order, whose configured price id is price_id
PlanOfPrice(price_id) ==
    LET hits == { j \in 1 .. Len(STRIPE_PRICES) : STRIPE_PRICES[j].price = price_id } IN
    IF hits = {} THEN NULL
    ELSE STRIPE_PRICES[CHOOSE j \in hits : \A k \in hits : j <= k].plan

\* a handler that clears the plan when no configured price matches
handle_subscription_updated_ClearsPlan(b, data) ==
    [b EXCEPT !.subscription_status = Get(data, "status", NULL),
              !.subscription_plan = IF data.price = ABSENT THEN b.subscription_plan
                                    ELSE PlanOfPrice(data.price)]

handle_subscription_updated(b, data) ==
    LET b1 == [b EXCEPT !.subscription_status = Get(data, "status", NULL)]
        plan == PlanOfPrice(data.price)
    IN  IF data.price # ABSENT /\ plan # NULL
        THEN [b1 EXCEPT !.subscription_plan = plan]
        ELSE b1

\* a handler that writes the cancellation to the Business status column
handle_subscription_deleted_OnStatus(b, data) == [b EXCEPT !.status = "cancelled"]

handle_subscription_deleted(b, data) == [b EXCEPT !.subscription_status = "cancelled"]

\* a handler for which a cancellation is final
handle_payment_succeeded_UnlessCancelled(b, data) ==
    IF b.subscription_status = "cancelled" THEN b
    ELSE [b EXCEPT !.subscription_status = "active"]

handle_payment_succeeded(b, data) == [b EXCEPT !.subscription_status = "active"]

\* a handler that escalates a Business that is past due already
handle_payment_failed_Escalating(b, data) ==
    [b EXCEPT !.subscription_status =
                  IF b.subscription_status = "past_due" THEN "unpaid" ELSE "past_due"]

handle_payment_failed(b, data) == [b EXCEPT !.subscription_status = "past_due"]

\* the dispatch by event type
HandleEvent(b, data) ==
    IF data.type = "customer.subscription.created" THEN handle_subscription_created(b, data)
    ELSE IF data.type = "customer.subscription.updated" THEN handle_subscription_updated(b, data)
    ELSE IF data.type = "customer.subscription.deleted" THEN handle_subscription_deleted(b, data)
    ELSE IF data.type = "invoice.payment_succeeded" THEN handle_payment_succeeded(b, data)
    ELSE IF data.type = "invoice.payment_failed" THEN handle_payment_failed(b, data)
    ELSE b

\* the handler of a request, on the Business rows "rows"
stripe_webhook(rows, request) ==
    IF request.signature = <<>>
    THEN [biz |-> rows, resp |-> Response("stripe", 400, 0, <<>>, "Missing signature")]
    ELSE LET event == verify_webhook_signature(request.payload, request.signature) IN
    IF event = <<>>
    THEN [biz |-> rows, resp |-> Response("stripe", 400, 0, <<>>, "Invalid signature")]
    ELSE LET data == event[1]
             bid == IF data.type \in HandledTypes
                    THEN BusinessByCustomer(rows, data) ELSE 0
         IN  IF bid = -1
             THEN [biz |-> rows, resp |-> Response("stripe", 500, 0, <<>>, NULL)]
             ELSE IF bid = 0
             THEN [biz |-> rows, resp |-> Response("stripe", 200, 0, <<>>, "received")]
             ELSE [biz |-> [rows EXCEPT ![bid] = HandleEvent(rows[bid], data)],
                   resp |-> Response("stripe", 200, bid, <<>>, "received")]

StripeWebhook ==
    \E request \in StripeRequests :
        LET r == stripe_webhook(biz, request) IN
        /\ biz' = r.biz
        /\ last' = Digest(r.resp)
        /\ UNCHANGED <<rate_limiter, traffic, env, clock, tokens, appts, nAppt, users, calls, usage, nAsst, nCust, reqs>>

(***************************************************************************)
(* POST /api/webhooks/vapi                                                 *)
(***************************************************************************)
\* the mapped attributes of the ORM classes
BusinessAttrs ==
    { "id", "user_id", "name", "industry", "phone", "service_area", "services",
      "custom_services", "business_hours", "call_mode", "rings_before_ai",
      "emergency_dispatch", "emergency_phones", "emergency_keywords",
      "agent_name", "agent_voice", "appointment_types", "notification_email",
      "notification_phone", "vapi_assistant_id", "vapi_phone_id",
      "vapi_phone_number", "stripe_customer_id", "stripe_subscription_id",
      "subscription_plan", "subscription_status", "trial_ends_at",
      "minutes_used", "minutes_limit", "status", "onboarding_step",
      "created_at", "updated_at", "user", "calls", "appointments",
      "sms_messages", "integrations" }

CallAttrs ==
    { "id", "business_id", "vapi_call_id", "caller_phone", "caller_name",
      "direction", "started_at", "ended_at", "duration", "status",
      "appointment_booked", "callback_requested", "emergency_triggered",
      "transcript", "summary", "recording_url", "extracted_data",
      "created_at", "business", "appointment" }

UsageRecordAttrs ==
    { "id", "business_id", "record_date", "call_count", "minutes_used",
      "appointments_booked", "created_at" }

\* the keyword arguments handle_call_ended constructs its rows with
CallKwargs ==
    { "id", "business_id", "vapi_call_id", "caller_phone", "status",
      "duration_seconds", "transcript", "summary", "recording_url",
      "appointment_booked" }

UsageRecordKwargs ==
    { "id", "business_id", "record_date", "call_count", "call_minutes" }

\* the declarative constructor: a keyword that is no attribute of the class
\* raises TypeError
Constructs(kwargs, attrs) == kwargs \subseteq attrs

\* the end-of-call reports the provider sends: message.call.assistantId,
\* message.call.id, message.transcript
CallIds == {"call_1", "call_2"}

\* a text is the sequence of its characters
BookedTranscript ==
    << "W", "e", " ", "B", "o", "o", "k", "e", "d", " ", "Y", "o", "u",
       " ", "F", "o", "r", " ", "3", "p", "m" >>

NoBookingTranscript ==
    << "n", "o", " ", "a", "p", "p", "o", "i", "n", "t", "m", "e", "n",
       "t", " ", "n", "e", "e", "d", "e", "d" >>

\* the transcripts the reports carry
Transcripts == {BookedTranscript, NoBookingTranscript}

EndOfCallReports ==
    [ type        : {"end-of-call-report"},
      assistantId : {ABSENT, AsstId(1), AsstId(2)},
      id          : {ABSENT} \cup CallIds,
      transcript  : Transcripts ]

\* the other message types, which carry nothing the handlers read
OtherMessages ==
    [ type        : {"transcript", "status-update"},
      assistantId : {AsstId(1)},
      id          : {"call_1"},
      transcript  : {NoBookingTranscript} ]

\* select(Business).where(Business.vapi_assistant_id == call_data.get("assistantId"))
BusinessByAssistant(rows, msg) ==
    ScalarOneOrNone({ i \in 1 .. Len(rows) :
                        rows[i].vapi_assistant_id = Get(msg, "assistantId", NULL) })

\* select(Call).where(Call.vapi_call_id == call_data.get("id"))
CallByProviderId(cs, msg) ==
    ScalarOneOrNone({ i \in 1 .. Len(cs) : cs[i].vapi_call_id = Get(msg, "id", NULL) })

\* str.lower(), character by character
UpperCase ==
    << "A", "B", "C", "D", "E", "F", "G", "H", "I", "J", "K", "L", "M",
       "N", "O", "P", "Q", "R", "S", "T", "U", "V", "W", "X", "Y", "Z" >>

LowerCase ==
    << "a", "b", "c", "d", "e", "f", "g", "h", "i", "j", "k", "l", "m",
       "n", "o", "p", "q", "r", "s", "t", "u", "v", "w", "x", "y", "z" >>

LowerChar(c) ==
    IF \E i \in DOMAIN UpperCase : UpperCase[i] = c
    THEN LowerCase[CHOOSE i \in DOMAIN UpperCase : UpperCase[i] = c]
    ELSE c

Lower(text) == [i \in DOMAIN text |-> LowerChar(text[i])]

\* phrase in text
Contains(text, phrase) ==
    \E i \in 0 .. (Len(text) - Len(phrase)) : SubSeq(text, i + 1, i + Len(phrase)) = phrase

\* the phrases a booking is recognized by
BookingPhrases ==
    { << "a", "p", "p", "o", "i", "n", "t", "m", "e", "n", "t", " ",
         "c", "o", "n", "f", "i", "r", "m", "e", "d" >>,
      << "b", "o", "o", "k", "e", "d", " ", "y", "o", "u", " ", "f", "o", "r" >>,
      << "s", "c", "h", "e", "d", "u", "l", "e", "d", " ", "f", "o", "r" >>,
      << "s", "e", "e", " ", "y", "o", "u", " ", "o", "n" >> }

\* any(phrase in transcript.lower() for phrase in [...])
AppointmentBooked(transcript) ==
    \E phrase \in BookingPhrases : Contains(Lower(transcript), phrase)

\* the Call row the handler builds for a report
NewCall(bid, msg) ==
    [ business_id        |-> bid,
      vapi_call_id       |-> Get(msg, "id", NULL),
      status             |-> "completed",
      transcript         |-> msg.transcript,
      appointment_booked |-> AppointmentBooked(msg.transcript) ]

\* the UsageRecord row the handler builds for a report
NewUsage(bid) == [business_id |-> bid, call_count |-> 1]

\* calls.vapi_call_id is unique: whether the rows cs can take one more row
UniqueCallId(cs, row) ==
    \/ row.vapi_call_id = NULL
    \/ \A i \in 1 .. Len(cs) : cs[i].vapi_call_id # row.vapi_call_id

\* an update-or-create that builds its rows with the columns the tables
\* have, on a table without the unique key
CallEndedWrite_BlindInsert(cs, us, bid, existing, msg) ==
    [ calls |-> IF existing = 0
                THEN Append(cs, NewCall(bid, msg))
                ELSE [cs EXCEPT ![existing].transcript = msg.transcript],
      usage |-> Append(us, NewUsage(bid)),
      code  |-> 200 ]

\* handle_call_ended from its update-or-create on: the rows built, the
\* commit, the notification. "existing" is the Call found before (0: none)
CallEndedWrite(cs, us, bid, existing, msg) ==
    LET fresh == existing = 0
        row == NewCall(bid, msg)
        cs1 == IF fresh
               THEN Append(cs, row)
               ELSE [cs EXCEPT ![existing].transcript = row.transcript,
                               ![existing].status = "completed",
                               ![existing].appointment_booked = row.appointment_booked]
        failed == [calls |-> cs, usage |-> us, code |-> 500]
    IN  IF fresh /\ ~Constructs(CallKwargs, CallAttrs) THEN failed
        ELSE IF ~Constructs(UsageRecordKwargs, UsageRecordAttrs) THEN failed
        ELSE IF fresh /\ ~UniqueCallId(cs, row) THEN failed
        ELSE [ calls |-> cs1,
               usage |-> Append(us, NewUsage(bid)),
               code  |-> IF "email" \in BusinessAttrs THEN 200 ELSE 500 ]

\* the mapped attributes of Appointment
AppointmentAttrs ==
    { "id", "business_id", "call_id", "customer_name", "customer_phone",
      "customer_email", "customer_address", "service_type", "appointment_date",
      "duration_minutes", "notes", "status", "reminder_sent", "created_at",
      "updated_at", "business", "call" }

\* the keyword arguments handle_function_call constructs its Appointment with
AppointmentKwargs ==
    { "id", "business_id", "customer_name", "customer_phone", "customer_email",
      "service_type", "appointment_date", "appointment_time", "status", "notes" }

\* the attributes of the Business that getBusinessInfo reads
BusinessInfoReads == {"name", "business_hours", "services", "address"}

\* the function names the assistant calls, one of them not a function here
FunctionNames == {"bookAppointment", "checkAvailability", "getBusinessInfo",
                  "cancelAppointment"}

\* the dates a bookAppointment carries, and those of them "%Y-%m-%d" parses
BookingDates == {"2030-01-15", "next tuesday"}
IsoDates == {"2030-01-15"}

\* the function-call messages: message.call.assistantId,
\* message.functionCall.name and, of its parameters, customerName,
\* customerEmail and date
FunctionCalls ==
    [ type          : {"function-call"},
      assistantId   : {ABSENT, AsstId(1)},
      name          : {"bookAppointment"},
      customerName  : {"Ann"},
      customerEmail : {ABSENT, "ann@x.com"},
      date          : BookingDates ]
    \cup
    [ type          : {"function-call"},
      assistantId   : {ABSENT, AsstId(1)},
      name          : FunctionNames \ {"bookAppointment"},
      customerName  : {ABSENT},
      customerEmail : {ABSENT},
      date          : {ABSENT} ]

\* the Appointment row a bookAppointment builds
BookedAppointment(id, bid, msg) ==
    [ id            |-> id,
      business_id   |-> bid,
      customer_name |-> Get(msg, "customerName", "Unknown"),
      status        |-> "scheduled" ]

\* the response string of a booking, by its parts
BookedResult(msg) ==
    << "Appointment booked for ", Get(msg, "customerName", "Unknown"),
       " on ", msg.date, " at ", "9:00 AM" >>

\* the result of a function call that raised
Raised(ap, n, bid) ==
    [ appts |-> ap, nAppt |-> n, resp |-> Response("vapi", 500, bid, <<>>, <<>>) ]

\* the result of a function call that returned "result" without a write
Returned(ap, n, bid, result) ==
    [ appts |-> ap, nAppt |-> n, resp |-> Response("vapi", 200, bid, <<>>, result) ]

\* the bookAppointment branch on the Appointment rows ap (n ids issued): the
\* date is parsed, the row constructed, added and committed, the confirmation
\* sent with business.address, the result string returned
BookAppointment(ap, n, bid, msg) ==
    IF msg.date \notin IsoDates THEN Raised(ap, n, bid)
    ELSE IF ~Constructs(AppointmentKwargs, AppointmentAttrs) THEN Raised(ap, n, bid)
    ELSE LET ap1 == Append(ap, BookedAppointment(n + 1, bid, msg)) IN
         IF Truthy(Get(msg, "customerEmail", NULL))
         THEN IF "address" \in BusinessAttrs
              THEN [ appts |-> ap1, nAppt |-> n + 1,
                     resp  |-> Response("vapi", 200, bid,
                                  <<"send_appointment_confirmation", msg.customerEmail>>,
                                  BookedResult(msg)) ]
              ELSE Raised(ap1, n + 1, bid)
         ELSE [ appts |-> ap1, nAppt |-> n + 1,
                resp  |-> Response("vapi", 200, bid, <<>>, BookedResult(msg)) ]

\* handle_function_call on the Business rows "rows" and the Appointment rows ap
handle_function_call(rows, ap, n, msg) ==
    LET bid == BusinessByAssistant(rows, msg) IN
    IF bid = -1 THEN Raised(ap, n, 0)
    ELSE IF bid = 0 THEN Returned(ap, n, 0, <<"Error: Business not found">>)
    ELSE IF msg.name = "bookAppointment" THEN BookAppointment(ap, n, bid, msg)
    ELSE IF msg.name = "checkAvailability"
    THEN Returned(ap, n, bid, <<"Available times: 9am, 10am, 11am, 2pm, 3pm, 4pm">>)
    ELSE IF msg.name = "getBusinessInfo"
    THEN IF BusinessInfoReads \subseteq BusinessAttrs
         THEN Returned(ap, n, bid, <<"name", rows[bid].name>>)
         ELSE Raised(ap, n, bid)
    ELSE Returned(ap, n, bid, <<"Function not recognized">>)

\* the whole handler of one request on the Business rows "rows", the Call
\* rows cs and the UsageRecord rows us, nothing else running meanwhile; a
\* function call works on the Appointment rows of the store
vapi_webhook(rows, cs, us, msg) ==
    LET same == [calls |-> cs, usage |-> us, appts |-> appts, nAppt |-> nAppt] IN
    IF msg.type = "function-call"
    THEN [calls |-> cs, usage |-> us] @@ handle_function_call(rows, appts, nAppt, msg)
    ELSE IF msg.type # "end-of-call-report"
    THEN same @@ [resp |-> Response("vapi", 200, 0, <<>>, "received")]
    ELSE LET bid == BusinessByAssistant(rows, msg) IN
    IF bid = -1
    THEN same @@ [resp |-> Response("vapi", 500, 0, <<>>, NULL)]
    ELSE IF bid = 0
    THEN same @@ [resp |-> Response("vapi", 200, 0, <<>>, "received")]
    ELSE LET existing == CallByProviderId(cs, msg) IN
    IF existing = -1
    THEN same @@ [resp |-> Response("vapi", 500, bid, <<>>, NULL)]
    ELSE LET w == CallEndedWrite(cs, us, bid, existing, msg) IN
         [ calls |-> w.calls, usage |-> w.usage, appts |-> appts, nAppt |-> nAppt,
           resp |-> Response("vapi", w.code, bid, <<>>,
                             IF w.code = 200 THEN "received" ELSE NULL) ]

VapiWebhook ==
    \E msg \in EndOfCallReports \cup OtherMessages \cup FunctionCalls :
        LET r == vapi_webhook(biz, calls, usage, msg) IN
        /\ calls' = r.calls
        /\ usage' = r.usage
        /\ appts' = r.appts
        /\ nAppt' = r.nAppt
        /\ last' = Digest(r.resp)
        /\ UNCHANGED <<rate_limiter, traffic, env, clock, tokens, users, biz, nAsst, nCust, reqs>>

(***************************************************************************)
(* POST /api/webhooks/vapi, requests handled concurrently: a request is    *)
(* three steps, one per await on the database session                      *)
(***************************************************************************)
\* end-of-call requests the model follows, one connection each
MaxReports == 2
Conns == 1 .. MaxReports

IdleRequest == [pc |-> "idle", msg |-> <<>>, bid |-> 0, existing |-> 0]
DoneRequest == [pc |-> "done", msg |-> <<>>, bid |-> 0, existing |-> 0]

\* the request on connection c arrives; the handler looks up the Business
ReceiveReport(c) ==
    /\ reqs[c].pc = "idle"
    /\ \E msg \in EndOfCallReports :
         LET bid == BusinessByAssistant(biz, msg) IN
         IF bid <= 0
         THEN /\ reqs' = [reqs EXCEPT ![c] = DoneRequest]
              /\ last' = Digest(Response("vapi", IF bid = 0 THEN 200 ELSE 500,
                                         0, <<>>, NULL))
         ELSE /\ reqs' = [reqs EXCEPT ![c] = [pc |-> "matched", msg |-> <<msg>>,
                                              bid |-> bid, existing |-> 0]]
              /\ last' = last
    /\ UNCHANGED <<rate_limiter, traffic, env, clock, tokens, appts, nAppt, users, biz, calls, usage, nAsst, nCust>>

\* the handler looks up the Call of the provider call id
LookupCall(c) ==
    /\ reqs[c].pc = "matched"
    /\ LET existing == CallByProviderId(calls, reqs[c].msg[1]) IN
       IF existing = -1
       THEN /\ reqs' = [reqs EXCEPT ![c] = DoneRequest]
            /\ last' = Digest(Response("vapi", 500, reqs[c].bid, <<>>, NULL))
       ELSE /\ reqs' = [reqs EXCEPT ![c].pc = "looked", ![c].existing = existing]
            /\ last' = last
    /\ UNCHANGED <<rate_limiter, traffic, env, clock, tokens, appts, nAppt, users, biz, calls, usage, nAsst, nCust>>

\* the handler builds its rows, commits and notifies
WriteCall(c) ==
    /\ reqs[c].pc = "looked"
    /\ LET w == CallEndedWrite(calls, usage, reqs[c].bid, reqs[c].existing,
                               reqs[c].msg[1]) IN
       /\ calls' = w.calls
       /\ usage' = w.usage
       /\ last' = Digest(Response("vapi", w.code, reqs[c].bid, <<>>, NULL))
    /\ reqs' = [reqs EXCEPT ![c] = DoneRequest]
    /\ UNCHANGED <<rate_limiter, traffic, env, clock, tokens, appts, nAppt, users, biz, nAsst, nCust>>

\* the tenants of the concurrent system
VoiceEmails == {"owner@x.com", "second@x.com"}

\* the adapters answering well throughout
AllOk == [a |-> "ok", p |-> "full", c |-> "ok", s |-> "ok", m |-> "ok"]
\* the assistant step failing, the rest answering well
NoAssistant == [a |-> "none", p |-> "skip", c |-> "ok", s |-> "ok", m |-> "ok"]

\* the Business of a user who signed up and saved step 1 with an industry
Stepped(email) ==
    StepSaved(NewBusiness(email, "Acme", email), 1,
              [business_name |-> ABSENT, industry |-> "hvac",
               notification_email |-> ABSENT])

\* that Business after its "complete" run; the providers' n-th ids
Onboarded(email, n, o) ==
    RunSaga(Stepped(email), o, AsstId(n), CustId(n)).row

\* two tenants: the first onboarded, the second onboarded, onboarded without
\* an assistant, or still onboarding
InitVoice ==
    /\ users = { NewUser(email, "pw1") : email \in VoiceEmails }
    /\ biz \in { <<Onboarded("owner@x.com", 1, AllOk), second>> :
                    second \in { Onboarded("second@x.com", 2, AllOk),
                                 Onboarded("second@x.com", 2, NoAssistant),
                                 Stepped("second@x.com") } }
    /\ calls = <<>>
    /\ usage = <<>>
    /\ appts = <<>>
    /\ nAppt = 0
    /\ clock = 0
    /\ tokens = { create_access_token(email, 0) : email \in VoiceEmails }
    /\ nAsst = Cardinality({b \in DOMAIN biz : Truthy(biz[b].vapi_assistant_id)})
    /\ nCust = Cardinality({b \in DOMAIN biz : Truthy(biz[b].stripe_customer_id)})
    /\ last = NoRequest
    /\ reqs = [c \in Conns |-> IdleRequest]
    /\ rate_limiter = NewRateLimiter
    /\ traffic = NoTraffic
    /\ env = DefaultEnv

NextVoice ==
    \E c \in Conns :
        \/ ReceiveReport(c)
        \/ LookupCall(c)
        \/ WriteCall(c)

SpecVoice == InitVoice /\ [][NextVoice]_vars

(***************************************************************************)
(* The system: the requests handled one at a time, from the empty store    *)
(***************************************************************************)
Init ==
    /\ users = {}
    /\ biz = <<>>
    /\ calls = <<>>
    /\ usage = <<>>
    /\ appts = <<>>
    /\ nAppt = 0
    /\ clock = 0
    /\ tokens = {}
    /\ nAsst = 0
    /\ nCust = 0
    /\ last = NoRequest
    /\ reqs = <<>>
    /\ rate_limiter = NewRateLimiter
    /\ traffic = NoTraffic
    /\ env = DefaultEnv

Next ==
    \/ Signup
    \/ SaveOnboardingStep
    \/ CompleteOnboarding
    \/ UpdateBusiness
    \/ StripeWebhook
    \/ VapiWebhook

Spec == Init /\ [][Next]_vars

(***************************************************************************)
(* Properties of the billing webhook's signature check                     *)
(***************************************************************************)
\* C1: a billing webhook request whose signature header is missing, or is
\* not the configured secret's signature of the request's payload, is
\* answered 400 and changes no field of any Business, in every store state.
C1_BadSignatureRejected ==
    \A request \in StripeRequests :
        request.signature # Sign(STRIPE_WEBHOOK_SECRET, request.payload) =>
            LET r == stripe_webhook(biz, request) IN
            r.resp.code = 400 /\ r.biz = biz

\* a request was rejected while a Business held the customer id its event names
C1_Witness ==
    /\ last.op = "stripe" /\ last.code = 400
    /\ \E b \in DOMAIN biz : /\ biz[b].stripe_customer_id = CustId(1)
                             /\ biz[b].subscription_status = "trialing"

(***************************************************************************)
(* Properties of the voice-AI end-of-call handler                          *)
(***************************************************************************)
\* the rows of cs that carry the provider call id of msg
RowsOfCall(cs, msg) == { i \in DOMAIN cs : cs[i].vapi_call_id = msg.id }

\* C2: in every store state, when an end-of-call report that carries a
\* provider call id and whose assistant id matches a Business is handled
\* twice, one handling after the other, the store then holds exactly one
\* Call row with that provider call id and two UsageRecord rows more than
\* before.
C2_SecondReportUpdates ==
    \A msg \in EndOfCallReports :
        (msg.id # ABSENT /\ msg.assistantId # ABSENT
                         /\ BusinessByAssistant(biz, msg) > 0) =>
            LET r1 == vapi_webhook(biz, calls, usage, msg)
                r2 == vapi_webhook(biz, r1.calls, r1.usage, msg)
            IN  /\ Cardinality(RowsOfCall(r2.calls, msg)) = 1
                /\ Len(r2.usage) = Len(usage) + 2

\* C3: in every state of the concurrently handled end-of-call reports, no
\* two Call rows carry the same non-null provider call id.
C3_ProviderCallIdUnique ==
    \A i, j \in DOMAIN calls :
        (i # j /\ calls[i].vapi_call_id # NULL) =>
            calls[i].vapi_call_id # calls[j].vapi_call_id

\* two requests with the same provider call id have both looked the Call up,
\* found none, and not yet committed
C3_Witness ==
    \E c, d \in Conns :
        /\ c # d
        /\ reqs[c].pc = "looked" /\ reqs[d].pc = "looked"
        /\ reqs[c].existing = 0 /\ reqs[d].existing = 0
        /\ reqs[c].msg[1].id # ABSENT
        /\ reqs[c].msg[1].id = reqs[d].msg[1].id

(***************************************************************************)
(* Properties of the onboarding "complete" saga                            *)
(***************************************************************************)
\* the outcomes the adapters could give a "complete" request, were it to
\* call them, and the outcome of calling none
AnyOutcomes(b) == RunOutcomes(b) \cup {NoCalls}

\* C4: "complete" on a Business that is active calls no adapter, changes
\* nothing in the store or at the providers, and answers 200 with the
\* stored assistant id and phone number, whatever the adapters would answer.
C4_ActiveCompleteIsNoOp ==
    \A business_id \in BizIds, user \in UserIds :
        LET bid == get_business_for_user(business_id, user) IN
        (bid # 0 /\ biz[bid].status = "active") =>
            \A o \in AnyOutcomes(biz[bid]) :
                LET r == complete_onboarding(business_id, user, o) IN
                /\ r.resp.code = 200
                /\ r.resp.trace = <<>>
                /\ r.biz = biz /\ r.nAsst = nAsst /\ r.nCust = nCust
                /\ r.resp.out.assistant_id = biz[bid].vapi_assistant_id
                /\ r.resp.out.phone_number = biz[bid].vapi_phone_number

\* "complete" was answered 200 without an adapter call, for an active Business
C4_Witness ==
    /\ last.op = "complete" /\ last.code = 200 /\ ~last.called
    /\ last.biz \in DOMAIN biz
    /\ biz[last.biz].status = "active"
    /\ Truthy(biz[last.biz].vapi_assistant_id)

\* the billing columns a subscription sets
SubscriptionFields(b) ==
    <<b.subscription_plan, b.subscription_status, b.trial_ends_at>>

\* C5 (as the code has it): "complete" on an onboarding Business with name
\* and industry ends with the Business active, whatever the phone and
\* billing adapters answer; a failed phone step leaves phone id and number
\* null; a failed customer step leaves the customer id null and the
\* subscription columns as they were; a failed subscription step leaves the
\* subscription columns as they were but the customer id just obtained stays
\* stored; no failure takes back an assistant id or phone obtained earlier.
C5_RunEndsActive ==
    \A business_id \in BizIds, user \in UserIds :
        RunsSaga(business_id, user) =>
            \A o \in RunOutcomes(biz[business_id]) :
                LET b0 == biz[business_id]
                    r == complete_onboarding(business_id, user, o)
                    b1 == r.biz[business_id]
                IN
                /\ r.resp.code = 200
                /\ b1.status = "active"
                /\ o.a = "ok" => b1.vapi_assistant_id = AsstId(nAsst + 1)
                /\ o.p = "full" =>
                       /\ b1.vapi_phone_id = PhoneId(b1.vapi_assistant_id)
                       /\ b1.vapi_phone_number = PhoneNumber(b1.vapi_assistant_id)
                /\ o.p \in {"none", "raise", "skip"} =>
                       b1.vapi_phone_id = NULL /\ b1.vapi_phone_number = NULL
                /\ o.c # "ok" =>
                       /\ b1.stripe_customer_id = NULL
                       /\ SubscriptionFields(b1) = SubscriptionFields(b0)
                /\ (o.c = "ok" /\ o.s # "ok") =>
                       /\ b1.stripe_customer_id = CustId(nCust + 1)
                       /\ SubscriptionFields(b1) = SubscriptionFields(b0)

\* a run ended active with an assistant, no phone, a customer and no subscription
C5_Witness ==
    /\ last.op = "complete" /\ last.code = 200 /\ last.called
    /\ last.biz \in DOMAIN biz
    /\ biz[last.biz].status = "active"
    /\ Truthy(biz[last.biz].vapi_assistant_id)
    /\ biz[last.biz].vapi_phone_id = NULL
    /\ Truthy(biz[last.biz].stripe_customer_id)
    /\ biz[last.biz].subscription_plan = NULL

\* C5 as stated: whenever the customer step or the subscription step of a
\* run fails, the Business ends the run without a billing customer id.
C5_FailedBillingLeavesNoLinkage ==
    \A business_id \in BizIds, user \in UserIds :
        RunsSaga(business_id, user) =>
            \A o \in RunOutcomes(biz[business_id]) :
                (o.c # "ok" \/ o.s # "ok") =>
                    complete_onboarding(business_id, user, o)
                        .biz[business_id].stripe_customer_id = NULL

\* C6 (as the code has it): when the assistant-creation step of a run fails,
\* the run goes on: it does not attempt the phone step, it attempts the
\* billing customer step, and it ends 200 with the Business active and its
\* assistant id null.
C6_AssistantFailureNotFatal ==
    \A business_id \in BizIds, user \in UserIds :
        RunsSaga(business_id, user) =>
            \A o \in RunOutcomes(biz[business_id]) :
                o.a # "ok" =>
                    LET r == complete_onboarding(business_id, user, o)
                        b1 == r.biz[business_id]
                        called == Range(r.resp.trace)
                    IN
                    /\ r.resp.code = 200
                    /\ b1.status = "active"
                    /\ b1.vapi_assistant_id = NULL
                    /\ "provision_phone_number" \notin called
                    /\ "create_customer" \in called

\* a run ended active without an assistant
C6_Witness ==
    /\ last.op = "complete" /\ last.code = 200 /\ last.called
    /\ last.biz \in DOMAIN biz
    /\ biz[last.biz].status = "active"
    /\ biz[last.biz].vapi_assistant_id = NULL

\* C6 as stated: a run whose assistant-creation step fails does not leave
\* the Business active.
C6_AssistantFailureFatal ==
    \A business_id \in BizIds, user \in UserIds :
        RunsSaga(business_id, user) =>
            \A o \in RunOutcomes(biz[business_id]) :
                o.a # "ok" =>
                    complete_onboarding(business_id, user, o)
                        .biz[business_id].status # "active"

(***************************************************************************)
(* The dashboard alone, with an operator who keeps invoking "complete"     *)
(***************************************************************************)
NextDashboard ==
    \/ Signup
    \/ SaveOnboardingStep
    \/ CompleteOnboarding
    \/ UpdateBusiness

SpecDashboard == Init /\ [][NextDashboard]_vars

\* the operator's re-invocations: "complete" is invoked again and again
SpecRetry == SpecDashboard /\ WF_vars(CompleteOnboarding)

\* the provider linkage a run left unfilled
LinkageOf(b) ==
    <<b.vapi_assistant_id, b.vapi_phone_id, b.vapi_phone_number,
      b.stripe_customer_id, b.subscription_plan, b.subscription_status,
      b.trial_ends_at>>

\* C7 (as the code has it): re-invoking "complete" is no recovery path: every
\* run leaves the Business active, and a "complete" on an active Business
\* calls no adapter and leaves every linkage field, the null ones included,
\* as it was, creating nothing at the providers.
C7_NoRetryOnceActive ==
    [][ \A b \in DOMAIN biz :
            (biz[b].status = "active" /\ last'.op = "complete" /\ last'.biz = b) =>
                /\ ~last'.called
                /\ LinkageOf(biz'[b]) = LinkageOf(biz[b])
                /\ nAsst' = nAsst /\ nCust' = nCust ]_vars

\* "complete" was invoked again on a Business whose run left the phone null
C7_Witness ==
    /\ last.op = "complete" /\ last.code = 200 /\ ~last.called
    /\ last.biz \in DOMAIN biz
    /\ biz[last.biz].status = "active"
    /\ biz[last.biz].vapi_phone_id = NULL

\* a run has left a linkage field null, and another request has followed it
FailedStepLeftNull ==
    /\ last.op # "complete"
    /\ \E b \in DOMAIN biz :
           /\ biz[b].status = "active"
           /\ \/ biz[b].vapi_assistant_id = NULL
              \/ biz[b].vapi_phone_id = NULL
              \/ biz[b].stripe_customer_id = NULL

\* a "complete" invocation has called the adapters
StepAttempted == last.op = "complete" /\ last.called

\* C7 as stated: once a run has left a linkage field null, some later
\* invocation of "complete" attempts the adapters again.
C7_LaterInvocationRetries == FailedStepLeftNull ~> StepAttempted

(***************************************************************************)
(* Properties over all the requests                                        *)
(***************************************************************************)
\* for every Business with an assistant id: no "complete" creates an
\* assistant, and every accepted PATCH calls update_assistant with that id
UsesStoredAssistant ==
    \A b \in DOMAIN biz :
        Truthy(biz[b].vapi_assistant_id) =>
            /\ \A o \in AnyOutcomes(biz[b]) :
                   "create_assistant" \notin
                       Range(complete_onboarding(b, biz[b].user_id, o).resp.trace)
            /\ \A request \in BusinessUpdate :
                   LET r == update_business(b, biz[b].user_id, request) IN
                   r.resp.code = 200 =>
                       r.resp.trace = <<"update_assistant", biz[b].vapi_assistant_id>>

\* C8: over every sequence of requests handled one at a time, a Business's
\* assistant id, once non-null, is the same after every request, and from
\* then on no "complete" invokes assistant creation for it and every
\* accepted PATCH calls update_assistant with the stored id.
C8_AssistantIdNeverChanges ==
    [][ /\ \A b \in DOMAIN biz :
               Truthy(biz[b].vapi_assistant_id) =>
                   biz'[b].vapi_assistant_id = biz[b].vapi_assistant_id
        /\ UsesStoredAssistant' ]_vars

\* a PATCH was accepted for a Business that has an assistant
C8_Witness ==
    /\ last.op = "patch" /\ last.code = 200 /\ last.called
    /\ last.biz \in DOMAIN biz
    /\ Truthy(biz[last.biz].vapi_assistant_id)

\* C9: every Business is created onboarding; a request changes a status
\* only from onboarding to active, and only the "complete" request for that
\* Business does; so the status is onboarding or active, and an active
\* Business is never moved back by any request.
C9_StatusOnlyAdvances ==
    [][ /\ \A b \in DOMAIN biz' \ DOMAIN biz : biz'[b].status = "onboarding"
        /\ \A b \in DOMAIN biz :
               /\ biz'[b].status \in {"onboarding", "active"}
               /\ biz'[b].status # biz[b].status =>
                      /\ biz[b].status = "onboarding"
                      /\ biz'[b].status = "active"
                      /\ last'.op = "complete" /\ last'.biz = b ]_vars

\* a billing event was applied to an active Business
C9_Witness ==
    /\ last.op = "stripe" /\ last.code = 200
    /\ last.biz \in DOMAIN biz
    /\ biz[last.biz].status = "active"
    /\ biz[last.biz].subscription_status = "cancelled"

\* C10: in every store state and for every verified event of the five
\* handled types, handling the event a second time right after the first
\* leaves every Business as the first handling left it.
C10_ReplayChangesNothing ==
    \A e \in Events :
        e.type \in HandledTypes =>
            LET r1 == stripe_webhook(biz, Signed(e))
                r2 == stripe_webhook(r1.biz, Signed(e))
            IN  r2.biz = r1.biz /\ r2.resp.code = r1.resp.code

\* a payment-failed event was applied to a Business
C10_Witness ==
    /\ last.op = "stripe" /\ last.code = 200
    /\ last.biz \in DOMAIN biz
    /\ biz[last.biz].stripe_customer_id = CustId(1)
    /\ biz[last.biz].subscription_status = "past_due"
    /\ biz[last.biz].subscription_plan = "professional"

(***************************************************************************)
(* Properties of the billing event handlers                                *)
(***************************************************************************)
\* the Business row b with the billing columns set as given
WithBilling(b, status, plan, trial) ==
    [b EXCEPT !.subscription_status = status,
              !.subscription_plan = plan,
              !.trial_ends_at = trial]

\* the plans configured with price id p
PlansPriced(p) ==
    { STRIPE_PRICES[i].plan : i \in { j \in DOMAIN STRIPE_PRICES :
                                        STRIPE_PRICES[j].price = p } }

\* C11: a verified event that names the billing customer of a Business is
\* answered 200 and changes that Business alone, and of it the billing
\* columns alone: "created" sets the status to the event's and the trial end
\* to the event's when it carries one; "updated" sets the status to the
\* event's and the plan to the plan configured with the first item's price,
\* leaving the plan when no plan has that price; "deleted" sets the status
\* cancelled, "payment_succeeded" active, "payment_failed" past_due; an
\* event of any other type changes nothing.
C11_EventEffects ==
    \A e \in Events :
        LET r == stripe_webhook(biz, Signed(e)) IN
        /\ e.type \notin HandledTypes => r.biz = biz /\ r.resp.code = 200
        /\ \A bid \in DOMAIN biz :
               (e.customer # ABSENT /\ biz[bid].stripe_customer_id = e.customer
                                    /\ e.type \in HandledTypes) =>
                   LET b == biz[bid]
                       plans == PlansPriced(e.price)
                       expect ==
                           IF e.type = "customer.subscription.created"
                           THEN WithBilling(b, e.status, b.subscription_plan,
                                    IF e.trial_end = ABSENT THEN b.trial_ends_at
                                    ELSE FromTimestamp(e.trial_end))
                           ELSE IF e.type = "customer.subscription.updated"
                           THEN WithBilling(b, e.status,
                                    IF plans = {} THEN b.subscription_plan
                                    ELSE CHOOSE p \in plans : TRUE,
                                    b.trial_ends_at)
                           ELSE IF e.type = "customer.subscription.deleted"
                           THEN WithBilling(b, "cancelled", b.subscription_plan,
                                            b.trial_ends_at)
                           ELSE IF e.type = "invoice.payment_succeeded"
                           THEN WithBilling(b, "active", b.subscription_plan,
                                            b.trial_ends_at)
                           ELSE WithBilling(b, "past_due", b.subscription_plan,
                                            b.trial_ends_at)
                   IN  /\ r.resp.code = 200
                       /\ r.biz = [biz EXCEPT ![bid] = expect]

\* a "created" event with a trial end was applied to the Business it names
C11_Witness ==
    /\ last.op = "stripe" /\ last.code = 200
    /\ last.biz \in DOMAIN biz
    /\ biz[last.biz].stripe_customer_id = CustId(1)
    /\ biz[last.biz].subscription_status = "active"
    /\ biz[last.biz].trial_ends_at = FromTimestamp("1700")

\* C12: a verified event that carries no customer id, or a customer id that
\* no Business has stored, changes no Business and is answered 200.
C12_UnmatchedEventDropped ==
    \A e \in Events :
        (e.customer = ABSENT
            \/ \A b \in DOMAIN biz : biz[b].stripe_customer_id # e.customer) =>
            LET r == stripe_webhook(biz, Signed(e)) IN
            r.biz = biz /\ r.resp.code = 200

(***************************************************************************)
(* The dashboard: /api/business/{business_id} and the routes below it      *)
(***************************************************************************)
\* schemas.dashboard.AppointmentStatus
AppointmentStatus == {"scheduled", "confirmed", "completed", "cancelled", "no_show"}

\* AppointmentCreate: the fields of the request the model tells apart
AppointmentCreate == [customer_name : {"Ann"}]

\* AppointmentUpdate, with the keys a PATCH may leave unset
AppointmentUpdate ==
    [ customer_name : {ABSENT, "Bob"},
      status        : {ABSENT, "confirmed", "scheduled"} ]

\* the appointments the model lets the tenants create
MaxAppts == 2

\* appointment ids a request may name: the ids issued, and one never issued
ApptIds == 1 .. (MaxAppts + 1)

\* business ids a dashboard request may name when two tenants exist
TenantBizIds == 1 .. 3

\* what a read hands out: a set of rows
Nothing == {}

\* the store a dashboard handler leaves as it found it
SameAppts == [appts |-> appts, nAppt |-> nAppt]

\* Appointment(id=uuid4(), business_id=business.id, ..., status="scheduled")
NewAppointment(id, bid, request) ==
    [ id            |-> id,
      business_id   |-> bid,
      customer_name |-> request.customer_name,
      status        |-> "scheduled" ]

\* select(Call).where(Call.business_id == business.id)
CallsOf(bid) == { calls[i] : i \in { j \in 1 .. Len(calls) : calls[j].business_id = bid } }

\* select(Appointment).where(Appointment.business_id == business.id)
AppointmentsOf(bid) ==
    { appts[i] : i \in { j \in 1 .. Len(appts) : appts[j].business_id = bid } }

\* select(Appointment).where(and_(Appointment.id == appointment_id,
\*                                Appointment.business_id == business.id))
AppointmentById(appointment_id, bid) ==
    ScalarOneOrNone({ i \in 1 .. Len(appts) :
                        appts[i].id = appointment_id /\ appts[i].business_id = bid })

\* the rows without the i-th
Without(rows, i) == SubSeq(rows, 1, i - 1) \o SubSeq(rows, i + 1, Len(rows))

\* GET /api/business/{business_id}
get_business(business_id, user) ==
    LET bid == get_business_for_user(business_id, user) IN
    IF bid = 0
    THEN Response("get_business", 404, 0, <<>>, Nothing)
    ELSE Response("get_business", 200, bid, <<>>, {biz[bid]})

\* GET /api/onboarding/{business_id}
get_onboarding_status(business_id, user) ==
    LET bid == get_business_for_user(business_id, user) IN
    IF bid = 0
    THEN Response("get_onboarding_status", 404, 0, <<>>, Nothing)
    ELSE Response("get_onboarding_status", 200, bid, <<>>, {biz[bid]})

\* GET /api/business/{business_id}/stats: the counts of the Business's rows
get_stats(business_id, user) ==
    LET bid == get_business_for_user(business_id, user) IN
    IF bid = 0
    THEN Response("get_stats", 404, 0, <<>>, Nothing)
    ELSE Response("get_stats", 200, bid, <<>>,
                  {[ total_calls         |-> Cardinality(CallsOf(bid)),
                     appointments_booked |-> Cardinality(AppointmentsOf(bid)) ]})

\* .offset(n): the rows after the first n
RECURSIVE Offset(_, _)
Offset(rows, n) ==
    IF n = 0 \/ rows = <<>> THEN rows ELSE Offset(Tail(rows), n - 1)

\* .limit(n): the first n rows at most
RECURSIVE Limit(_, _)
Limit(rows, n) ==
    IF n = 0 \/ rows = <<>> THEN <<>> ELSE <<Head(rows)>> \o Limit(Tail(rows), n - 1)

\* a page whose offset is page * per_page
Paginate_OffByOnePage(ordered, page, per_page) ==
    LET offset == page * per_page
        items == Limit(Offset(ordered, offset), per_page)
    IN  [ items |-> items, total |-> Len(ordered), page |-> page,
          per_page |-> per_page, has_more |-> (offset + Len(items)) < Len(ordered) ]

\* the body of a list response: of the rows a query matches, in the query's
\* order, those after the offset up to the limit; the count; has_more
Paginate(ordered, page, per_page) ==
    LET offset == (page - 1) * per_page
        items == Limit(Offset(ordered, offset), per_page)
    IN  [ items |-> items, total |-> Len(ordered), page |-> page,
          per_page |-> per_page, has_more |-> (offset + Len(items)) < Len(ordered) ]

\* the defaults of the page and per_page query parameters, and the bounds
\* Query(ge=1) and Query(ge=1, le=100) put on them
DefaultPage == 1
DefaultPerPage == 20
MaxPerPage == 100

\* rows back to front
Reversed(rows) == [i \in DOMAIN rows |-> rows[Len(rows) + 1 - i]]

\* the Business's calls in the order of created_at descending
CallsNewestFirst(bid) ==
    Reversed(SelectSeq(calls, LAMBDA c : c.business_id = bid))

\* GET /api/business/{business_id}/calls
get_calls(business_id, user, page, per_page) ==
    LET bid == get_business_for_user(business_id, user) IN
    IF bid = 0
    THEN Response("get_calls", 404, 0, <<>>, Nothing)
    ELSE LET body == Paginate(CallsNewestFirst(bid), page, per_page) IN
         Response("get_calls", 200, bid, <<>>, Range(body.items)) @@ [body |-> body]

\* GET /api/business/{business_id}/calls/{call_id}; a Call's id is its position
get_call(business_id, call_id, user) ==
    LET bid == get_business_for_user(business_id, user) IN
    IF bid = 0
    THEN Response("get_call", 404, 0, <<>>, Nothing)
    ELSE IF call_id \in 1 .. Len(calls) /\ calls[call_id].business_id = bid
    THEN Response("get_call", 200, bid, <<>>, {calls[call_id]})
    ELSE Response("get_call", 404, bid, <<>>, Nothing)

\* POST /api/business/{business_id}/test-call; "made" is whether the provider
\* adapter returned a call id
initiate_test_call(business_id, user, made) ==
    LET bid == get_business_for_user(business_id, user) IN
    IF bid = 0
    THEN Response("test_call", 404, 0, <<>>, Nothing)
    ELSE IF ~Truthy(biz[bid].vapi_assistant_id) \/ ~Truthy(biz[bid].vapi_phone_id)
    THEN Response("test_call", 400, bid, <<>>, Nothing)
    ELSE Response("test_call", IF made THEN 200 ELSE 500, bid,
                  <<"make_test_call", biz[bid].vapi_assistant_id>>, Nothing)

\* the Business's appointments that pass the optional status filter
AppointmentsMatching(bid, status) ==
    { a \in AppointmentsOf(bid) : Truthy(status) => a.status = status }

\* the orders a query can return the rows S in when its sort key (the
\* appointment date, which the rows of the model do not carry) may tie
Orderings(S) == { s \in [1 .. Cardinality(S) -> S] : Range(s) = S }

\* GET /api/business/{business_id}/appointments, with its optional status
\* filter; "ordered" is the order the database returns the matching rows in
get_appointments(business_id, user, status, page, per_page, ordered) ==
    LET bid == get_business_for_user(business_id, user) IN
    IF bid = 0
    THEN Response("get_appointments", 404, 0, <<>>, Nothing)
    ELSE LET body == Paginate(ordered, page, per_page) IN
         Response("get_appointments", 200, bid, <<>>, Range(body.items))
            @@ [body |-> body]

\* POST /api/business/{business_id}/appointments
create_appointment(business_id, user, request) ==
    LET bid == get_business_for_user(business_id, user) IN
    IF bid = 0
    THEN SameAppts @@ [resp |-> Response("create_appointment", 404, 0, <<>>, Nothing)]
    ELSE LET row == NewAppointment(nAppt + 1, bid, request) IN
         [ appts |-> Append(appts, row),
           nAppt |-> nAppt + 1,
           resp  |-> Response("create_appointment", 200, bid, <<>>, {row}) ]

\* for field, value in request.model_dump(exclude_unset=True).items(): setattr(...)
ApplyAppointmentUpdate(a, request) ==
    [a EXCEPT !.customer_name = Get(request, "customer_name", a.customer_name),
              !.status = Get(request, "status", a.status)]

\* PATCH /api/business/{business_id}/appointments/{appointment_id}
update_appointment(business_id, appointment_id, user, request) ==
    LET bid == get_business_for_user(business_id, user) IN
    IF bid = 0
    THEN SameAppts @@ [resp |-> Response("update_appointment", 404, 0, <<>>, Nothing)]
    ELSE LET i == AppointmentById(appointment_id, bid) IN
         IF i = 0
         THEN SameAppts @@ [resp |-> Response("update_appointment", 404, bid, <<>>, Nothing)]
         ELSE LET row == ApplyAppointmentUpdate(appts[i], request) IN
              [ appts |-> [appts EXCEPT ![i] = row],
                nAppt |-> nAppt,
                resp  |-> Response("update_appointment", 200, bid, <<>>, {row}) ]

\* DELETE /api/business/{business_id}/appointments/{appointment_id}
delete_appointment(business_id, appointment_id, user) ==
    LET bid == get_business_for_user(business_id, user) IN
    IF bid = 0
    THEN SameAppts @@ [resp |-> Response("delete_appointment", 404, 0, <<>>, Nothing)]
    ELSE LET i == AppointmentById(appointment_id, bid) IN
         IF i = 0
         THEN SameAppts @@ [resp |-> Response("delete_appointment", 404, bid, <<>>, Nothing)]
         ELSE [ appts |-> Without(appts, i),
                nAppt |-> nAppt,
                resp  |-> Response("delete_appointment", 200, bid, <<>>, Nothing) ]

\* what "last" keeps of a dashboard request: the response's digest, who asked,
\* and the Business id and the appointment id (0: none) of the route
Asked(resp, user, business_id, appointment_id) ==
    Digest(resp) @@ [user |-> user, business_id |-> business_id,
                     appointment_id |-> appointment_id]

\* the reads of the dashboard and of the wizard
Reads(business_id, user) ==
    { get_business(business_id, user), get_onboarding_status(business_id, user),
      get_stats(business_id, user),
      get_calls(business_id, user, DefaultPage, DefaultPerPage),
      get_call(business_id, 1, user) }
    \cup { initiate_test_call(business_id, user, made) : made \in BOOLEAN }
    \cup UNION { { get_appointments(business_id, user, status, DefaultPage,
                                    DefaultPerPage, ordered) :
                     ordered \in Orderings(AppointmentsMatching(business_id, status)) } :
                 status \in {NULL} \cup AppointmentStatus }

ReadDashboard ==
    \E business_id \in TenantBizIds, user \in UserIds :
      \E resp \in Reads(business_id, user) :
        /\ last' = Asked(resp, user, business_id, 0)
        /\ UNCHANGED <<rate_limiter, traffic, env, clock, tokens, users, biz, calls, usage, appts, nAppt, nAsst, nCust, reqs>>

CreateAppointment ==
    \E business_id \in TenantBizIds, user \in UserIds, request \in AppointmentCreate :
        LET r == create_appointment(business_id, user, request) IN
        /\ nAppt < MaxAppts
        /\ appts' = r.appts
        /\ nAppt' = r.nAppt
        /\ last' = Asked(r.resp, user, business_id, 0)
        /\ UNCHANGED <<rate_limiter, traffic, env, clock, tokens, users, biz, calls, usage, nAsst, nCust, reqs>>

UpdateAppointment ==
    \E business_id \in TenantBizIds, user \in UserIds, appointment_id \in ApptIds :
      \E request \in AppointmentUpdate :
        LET r == update_appointment(business_id, appointment_id, user, request) IN
        /\ appts' = r.appts
        /\ nAppt' = r.nAppt
        /\ last' = Asked(r.resp, user, business_id, appointment_id)
        /\ UNCHANGED <<rate_limiter, traffic, env, clock, tokens, users, biz, calls, usage, nAsst, nCust, reqs>>

DeleteAppointment ==
    \E business_id \in TenantBizIds, user \in UserIds, appointment_id \in ApptIds :
        LET r == delete_appointment(business_id, appointment_id, user) IN
        /\ appts' = r.appts
        /\ nAppt' = r.nAppt
        /\ last' = Asked(r.resp, user, business_id, appointment_id)
        /\ UNCHANGED <<rate_limiter, traffic, env, clock, tokens, users, biz, calls, usage, nAsst, nCust, reqs>>

(***************************************************************************)
(* Two tenants on the dashboard                                            *)
(***************************************************************************)
\* two tenants: the first onboarded, the second onboarded, onboarded without
\* an assistant, or still onboarding; no appointment yet
InitTenants ==
    /\ users = { NewUser(email, "pw1") : email \in VoiceEmails }
    /\ biz \in { <<Onboarded("owner@x.com", 1, AllOk), second>> :
                    second \in { Onboarded("second@x.com", 2, AllOk),
                                 Onboarded("second@x.com", 2, NoAssistant),
                                 Stepped("second@x.com") } }
    /\ calls = <<>>
    /\ usage = <<>>
    /\ appts = <<>>
    /\ nAppt = 0
    /\ clock = 0
    /\ tokens = { create_access_token(email, 0) : email \in VoiceEmails }
    /\ nAsst = Cardinality({b \in DOMAIN biz : Truthy(biz[b].vapi_assistant_id)})
    /\ nCust = Cardinality({b \in DOMAIN biz : Truthy(biz[b].stripe_customer_id)})
    /\ last = NoRequest
    /\ reqs = <<>>
    /\ rate_limiter = NewRateLimiter
    /\ traffic = NoTraffic
    /\ env = DefaultEnv

NextTenants ==
    \/ ReadDashboard
    \/ CreateAppointment
    \/ UpdateAppointment
    \/ DeleteAppointment

SpecTenants == InitTenants /\ [][NextTenants]_vars

\* the appointments of the Businesses other than bid, in the rows given
AppointmentsElsewhere(rows, bid) ==
    { rows[i] : i \in { j \in 1 .. Len(rows) : rows[j].business_id # bid } }

\* C13: a request of user U that names a Business U does not own (or none at
\* all) is answered 404 by every dashboard and onboarding operation, hands
\* out no row and changes nothing; a request that names a Business U owns
\* hands out only that Business's rows, answers 404 for an appointment id of
\* another Business, and leaves every appointment of another Business as it is.
C13_TenantIsolation ==
    \A user \in UserIds, business_id \in TenantBizIds :
        LET owned == business_id \in DOMAIN biz /\ biz[business_id].user_id = user
            reads == Reads(business_id, user)
            patches == { update_business(business_id, user, request) :
                           request \in BusinessUpdate }
                       \cup { save_onboarding_step(business_id, user, 1, data) :
                                data \in StepData(1) }
            runs == { complete_onboarding(business_id, user, o) : o \in {AllOk, NoCalls} }
            writes == { create_appointment(business_id, user, request) :
                          request \in AppointmentCreate }
                      \cup { update_appointment(business_id, id, user, request) :
                               id \in ApptIds, request \in AppointmentUpdate }
                      \cup { delete_appointment(business_id, id, user) : id \in ApptIds }
        IN
        /\ ~owned =>
              /\ \A resp \in reads : resp.code = 404 /\ resp.out = Nothing
              /\ \A r \in patches : r.resp.code = 404 /\ r.biz = biz
              /\ \A r \in runs : /\ r.resp.code = 404 /\ r.resp.trace = <<>>
                                 /\ r.biz = biz /\ r.nAsst = nAsst /\ r.nCust = nCust
              /\ \A r \in writes : /\ r.resp.code = 404 /\ r.resp.out = Nothing
                                   /\ r.appts = appts /\ r.nAppt = nAppt
        /\ owned =>
              /\ \A resp \in reads :
                    resp.out \subseteq {biz[business_id]} \cup CallsOf(business_id)
                                       \cup AppointmentsOf(business_id)
                                       \cup { s \in resp.out : "total_calls" \in DOMAIN s }
              /\ \A r \in patches :
                    \A other \in DOMAIN biz \ {business_id} : r.biz[other] = biz[other]
              /\ \A r \in writes :
                    /\ AppointmentsElsewhere(r.appts, business_id)
                         = AppointmentsElsewhere(appts, business_id)
                    /\ \A a \in r.resp.out : a.business_id = business_id
              /\ \A id \in ApptIds, request \in AppointmentUpdate :
                    (\E i \in DOMAIN appts : appts[i].id = id
                                             /\ appts[i].business_id # business_id) =>
                        /\ update_appointment(business_id, id, user, request).resp.code = 404
                        /\ delete_appointment(business_id, id, user).resp.code = 404

\* a tenant's PATCH of the other tenant's appointment has been answered 404
C13_Witness ==
    /\ last.op = "update_appointment"
    /\ last.code = 404
    /\ last.business_id \in DOMAIN biz
    /\ biz[last.business_id].user_id # last.user
    /\ \E i \in DOMAIN appts : /\ appts[i].id = last.appointment_id
                               /\ appts[i].business_id = last.business_id

(***************************************************************************)
(* POST /api/auth/signup, requests handled concurrently: a request is      *)
(* three steps, the select, the flush of the User, the commit              *)
(***************************************************************************)
\* sign-up requests the model follows at a time, one connection each
MaxSignups == 2
SignupConns == 1 .. MaxSignups

\* the passwords the concurrent sign-ups carry
ConcurrentPasswords == {"pw1", "pw2"}

IdleSignup == [pc |-> "idle", email |-> NULL, password |-> NULL, name |-> NULL]

\* what "last" keeps of a sign-up: the response's digest and the email asked for
SignupAnswer(code, bid, email) ==
    Digest(Response("signup", code, bid, <<>>, NULL)) @@ [user |-> email]

\* a table that takes any row
UniqueEmail_NoConstraint(rows, email) == TRUE

\* users.email is unique: whether the committed rows can take a row with email
UniqueEmail(rows, email) == \A u \in rows : u.email # email

\* the request on connection c arrives; the handler selects the User by email
SignupSelect(c) ==
    /\ reqs[c].pc = "idle"
    /\ \E email \in VoiceEmails, password \in ConcurrentPasswords,
          business_name \in SignupNames :
         IF email \in UserIds
         THEN /\ reqs' = reqs
              /\ last' = SignupAnswer(400, 0, email)
         ELSE /\ reqs' = [reqs EXCEPT ![c] = [pc |-> "selected", email |-> email,
                                              password |-> password,
                                              name |-> business_name]]
              /\ last' = last
    /\ UNCHANGED <<rate_limiter, traffic, env, clock, tokens, users, biz, calls, usage, appts, nAppt, nAsst, nCust>>

\* db.flush(): the INSERT of the User. It waits while another transaction
\* holds an uncommitted row with the same email, and fails on a committed one
\* (IntegrityError: the session is rolled back, the request answered 500)
SignupFlush(c) ==
    /\ reqs[c].pc = "selected"
    /\ \A d \in SignupConns \ {c} :
          ~(reqs[d].pc = "flushed" /\ reqs[d].email = reqs[c].email)
    /\ IF UniqueEmail(users, reqs[c].email)
       THEN /\ reqs' = [reqs EXCEPT ![c].pc = "flushed"]
            /\ last' = last
       ELSE /\ reqs' = [reqs EXCEPT ![c] = IdleSignup]
            /\ last' = SignupAnswer(500, 0, reqs[c].email)
    /\ UNCHANGED <<rate_limiter, traffic, env, clock, tokens, users, biz, calls, usage, appts, nAppt, nAsst, nCust>>

\* the Business is added and the transaction commits
SignupCommit(c) ==
    /\ reqs[c].pc = "flushed"
    /\ users' = users \cup {NewUser(reqs[c].email, reqs[c].password)}
    /\ biz' = Append(biz, NewBusiness(reqs[c].email, reqs[c].name, reqs[c].email))
    /\ last' = SignupAnswer(200, Len(biz) + 1, reqs[c].email)
    /\ tokens' = tokens \cup {create_access_token(reqs[c].email, clock)}
    /\ reqs' = [reqs EXCEPT ![c] = IdleSignup]
    /\ UNCHANGED <<rate_limiter, traffic, env, clock, calls, usage, appts, nAppt, nAsst, nCust>>

InitSignup ==
    /\ users = {}
    /\ biz = <<>>
    /\ calls = <<>>
    /\ usage = <<>>
    /\ appts = <<>>
    /\ nAppt = 0
    /\ clock = 0
    /\ tokens = {}
    /\ nAsst = 0
    /\ nCust = 0
    /\ last = NoRequest
    /\ reqs = [c \in SignupConns |-> IdleSignup]
    /\ rate_limiter = NewRateLimiter
    /\ traffic = NoTraffic
    /\ env = DefaultEnv

NextSignup ==
    \E c \in SignupConns :
        \/ SignupSelect(c)
        \/ SignupFlush(c)
        \/ SignupCommit(c)

SpecSignup == InitSignup /\ [][NextSignup]_vars

\* C14: whatever the interleaving of the sign-up requests, no step leaves two
\* User rows with one email; a User row, once there, stays as it is; a new
\* User row has an email no User had; a sign-up answered for an email that
\* belonged to a User is rejected (400 at the select, 500 at the flush), and
\* a rejected sign-up creates no User and no Business.
C14_OneUserPerEmail ==
    [][ /\ \A u \in users', v \in users' : u.email = v.email => u = v
        /\ users \subseteq users'
        /\ \A u \in users' \ users : u.email \notin UserIds
        /\ Len(biz') = Cardinality(users')
        /\ (last' # last /\ last'.user \in UserIds) =>
              /\ last'.code \in {400, 500}
              /\ users' = users
              /\ biz' = biz ]_vars

\* a sign-up that passed the select while the email was free has been refused
\* at the flush, the other request having committed the email meanwhile
C14_Witness ==
    /\ last.op = "signup"
    /\ last.code = 500
    /\ last.user \in UserIds

(***************************************************************************)
(* Authentication: POST /api/auth/login and the get_current_user           *)
(* dependency of every protected route                                     *)
(***************************************************************************)
\* the hours the clock advances by, and the time the model follows it to
TickHours == 84
MaxClock == 336

\* a user whose row is gone (the tables were dropped and recreated) while
\* the token of its sign-up is still held
GoneEmail == "gone@x.com"

\* LoginRequest
LoginEmails == VoiceEmails \cup {GoneEmail}
LoginPasswords == {"pw1", "wrong"}

\* select(User).where(User.email == request.email).scalar_one_or_none()
UserByEmail(email) == { u \in users : u.email = email }

\* POST /api/auth/login at time now: the status code and the token issued
login(email, password, now) ==
    LET found == UserByEmail(email) IN
    IF found = {} \/ \A u \in found : ~verify_password(password, u.password_hash)
    THEN [code |-> 401, issued |-> {}]
    ELSE IF \A u \in found : ~u.is_active
    THEN [code |-> 403, issued |-> {}]
    ELSE [code |-> 200, issued |-> {create_access_token(email, now)}]

\* the status HTTPBearer() answers itself when the request carries no bearer
\* credentials: 403 "Not authenticated" in the FastAPI releases that raise
\* HTTP_403_FORBIDDEN there, 401 in the releases that changed it
HTTPBearerStatuses == {403, 401}

\* the Authorization header of a request: none, or "Bearer <token>"
NoHeader == [header |-> "none", token |-> <<>>]
Bearer(token) == [header |-> "bearer", token |-> <<token>>]

\* what a client can make of a token it holds without the secret: the same
\* payload signed with another key, another subject under the old signature,
\* a token cut short
Forgeries(token) ==
    { jwt_encode(token.payload, OtherKey),
      [token EXCEPT !.segments = 2] }
    \cup { [token EXCEPT !.payload.sub = sub] : sub \in LoginEmails \ {token.payload.sub} }

\* the Authorization headers the requests carry
Authorizations ==
    {NoHeader} \cup { Bearer(t) : t \in tokens }
               \cup { Bearer(f) : f \in UNION { Forgeries(t) : t \in tokens } }

\* get_current_user: the status (200: the handler runs as "user")
get_current_user(authorization, now, bearer_status) ==
    IF authorization.header = "none"
    THEN [code |-> bearer_status, user |-> NULL]
    ELSE LET user_id == verify_token(authorization.token[1], now) IN
    IF user_id = NULL
    THEN [code |-> 401, user |-> NULL]
    ELSE LET found == UserByEmail(user_id) IN
    IF found = {}
    THEN [code |-> 401, user |-> NULL]
    ELSE IF \A u \in found : ~u.is_active
    THEN [code |-> 403, user |-> NULL]
    ELSE [code |-> 200, user |-> user_id]

\* a protected route, POST /api/business/{business_id}/appointments: the
\* dependency, then the handler
protected_create_appointment(authorization, bearer_status, business_id, request) ==
    LET auth == get_current_user(authorization, clock, bearer_status) IN
    IF auth.code # 200
    THEN SameAppts @@ [ran |-> FALSE,
                       resp |-> Response("create_appointment", auth.code, 0, <<>>, Nothing)]
    ELSE create_appointment(business_id, auth.user, request) @@ [ran |-> TRUE]

Tick ==
    /\ clock + TickHours <= MaxClock
    /\ clock' = clock + TickHours
    /\ UNCHANGED <<rate_limiter, traffic, env, users, biz, calls, usage, appts, nAppt, tokens, nAsst, nCust, last, reqs>>

Login ==
    \E email \in LoginEmails, password \in LoginPasswords :
        LET r == login(email, password, clock) IN
        /\ tokens' = tokens \cup r.issued
        /\ last' = Asked(Response("login", r.code, 0, <<>>, NULL), email, 0, 0)
        /\ UNCHANGED <<rate_limiter, traffic, env, users, biz, calls, usage, appts, nAppt, clock, nAsst, nCust, reqs>>

\* what "last" keeps of a protected request: the digest, the header's kind
\* and whether the handler ran
Guarded(r, authorization) ==
    Digest(r.resp) @@ [header |-> authorization.header, ran |-> r.ran]

ProtectedCreateAppointment ==
    \E authorization \in Authorizations, bearer_status \in HTTPBearerStatuses,
       business_id \in TenantBizIds, request \in AppointmentCreate :
        LET r == protected_create_appointment(authorization, bearer_status,
                                              business_id, request) IN
        /\ nAppt < MaxAppts
        /\ appts' = r.appts
        /\ nAppt' = r.nAppt
        /\ last' = Guarded(r, authorization)
        /\ UNCHANGED <<rate_limiter, traffic, env, users, biz, calls, usage, clock, tokens, nAsst, nCust, reqs>>

\* two tenants, the second one's account disabled since its sign-up, and the
\* token of a sign-up whose User row is gone
InitAuth ==
    /\ users = { NewUser("owner@x.com", "pw1"),
                 [NewUser("second@x.com", "pw1") EXCEPT !.is_active = FALSE] }
    /\ biz = <<Onboarded("owner@x.com", 1, AllOk), Onboarded("second@x.com", 2, AllOk)>>
    /\ calls = <<>>
    /\ usage = <<>>
    /\ appts = <<>>
    /\ nAppt = 0
    /\ clock = 0
    /\ tokens = { create_access_token(email, 0) : email \in LoginEmails }
    /\ nAsst = 2
    /\ nCust = 2
    /\ last = NoRequest
    /\ reqs = <<>>
    /\ rate_limiter = NewRateLimiter
    /\ traffic = NoTraffic
    /\ env = DefaultEnv

NextAuth ==
    \/ Tick
    \/ Login
    \/ ProtectedCreateAppointment

SpecAuth == InitAuth /\ [][NextAuth]_vars

\* the times a token held now may have been issued at
IssueTimes == { t \in 0 .. clock : t % TickHours = 0 }

\* C15: at every time, a token create_access_token issued for a user id u
\* verifies to u while its expiry lies ahead and to None once it lies behind;
\* a token signed with another key, altered under its signature or cut short
\* verifies to None; verify_token never lets an exception out.
C15_TokenRoundTrip ==
    \A u \in LoginEmails, issued \in IssueTimes :
        LET token == create_access_token(u, issued) IN
        /\ clock < issued + JWT_EXPIRATION_HOURS => verify_token(token, clock) = u
        /\ clock > issued + JWT_EXPIRATION_HOURS => verify_token(token, clock) = NULL
        /\ verify_token(token, clock) # "raised"
        /\ \A forged \in Forgeries(token) : verify_token(forged, clock) = NULL

\* a token issued by a login is held unexpired while an earlier one has expired
C15_Witness ==
    /\ \E t \in tokens : verify_token(t, clock) = t.payload.sub /\ t.payload.iat > 0
    /\ \E t \in tokens : verify_token(t, clock) = NULL /\ t.payload.exp < clock

\* whether a token carries the configured key's signature and has not expired
ValidNow(token) ==
    /\ token.segments = 3
    /\ token.signature = HS256(token.payload, JWT_SECRET)
    /\ token.payload.exp >= clock

\* C16: a protected request whose bearer token is absent, invalid, expired or
\* names a user that does not exist is answered 401, one with a valid token
\* of a disabled user 403, in both cases without the handler running and
\* without a change of state; a login with the correct credentials of a
\* disabled account is answered 403 and issues no token.
C16_UnauthenticatedIs401 ==
    /\ \A authorization \in Authorizations, bearer_status \in HTTPBearerStatuses,
          business_id \in TenantBizIds, request \in AppointmentCreate :
        LET r == protected_create_appointment(authorization, bearer_status,
                                              business_id, request)
            absent == authorization.header = "none"
            valid == ~absent /\ ValidNow(authorization.token[1])
            owner == IF valid THEN UserByEmail(authorization.token[1].payload.sub)
                     ELSE {}
            untouched == ~r.ran /\ r.appts = appts /\ r.nAppt = nAppt
        IN
        /\ (absent \/ ~valid \/ owner = {}) => r.resp.code = 401 /\ untouched
        /\ (valid /\ \E u \in owner : ~u.is_active) => r.resp.code = 403 /\ untouched
    /\ \A email \in LoginEmails, password \in LoginPasswords :
        (\E u \in users : /\ u.email = email /\ ~u.is_active
                          /\ u.password_hash = hash_password(password)) =>
            /\ login(email, password, clock).code = 403
            /\ login(email, password, clock).issued = {}

(***************************************************************************)
(* Properties of the voice-AI webhook's answers                            *)
(***************************************************************************)
\* the messages of every type that name an assistant
AddressedMessages ==
    { msg \in EndOfCallReports \cup OtherMessages \cup FunctionCalls :
        msg.assistantId # ABSENT }

\* whether some Business has the assistant the message names
Matches(msg) == \E b \in DOMAIN biz : biz[b].vapi_assistant_id = msg.assistantId

\* C17: every voice-AI webhook request that names an assistant is answered
\* 200, whatever its type and whether or not a Business has that assistant;
\* when none has, no Call, UsageRecord or Appointment is created.
C17_AlwaysAcknowledged ==
    \A msg \in AddressedMessages :
        LET r == vapi_webhook(biz, calls, usage, msg) IN
        /\ r.resp.code = 200
        /\ ~Matches(msg) => r.calls = calls /\ r.usage = usage /\ r.appts = appts

\* C18: a bookAppointment call with a well-formed date for a Business matched
\* by assistant id creates exactly one Appointment, owned by that Business
\* and scheduled, sends one confirmation exactly when a customer email is
\* given, and returns a string with the customer's name and the date.
C18_BookingCreatesOne ==
    \A msg \in FunctionCalls :
        (msg.name = "bookAppointment" /\ msg.assistantId # ABSENT
            /\ msg.date \in IsoDates /\ Matches(msg)) =>
        LET r == vapi_webhook(biz, calls, usage, msg) IN
        /\ Len(r.appts) = Len(appts) + 1
        /\ SubSeq(r.appts, 1, Len(appts)) = appts
        /\ biz[r.appts[Len(r.appts)].business_id].vapi_assistant_id = msg.assistantId
        /\ r.appts[Len(r.appts)].status = "scheduled"
        /\ r.resp.trace = IF msg.customerEmail = ABSENT THEN <<>>
                          ELSE <<"send_appointment_confirmation", msg.customerEmail>>
        /\ msg.customerName \in Range(r.resp.out)
        /\ msg.date \in Range(r.resp.out)

\* C19: a transcript update, and a function call named checkAvailability,
\* getBusinessInfo or an unrecognized name, for a Business matched by
\* assistant id, leave the store as it is and do not raise; the unrecognized
\* name is answered 'Function not recognized'.
C19_ReadOnlyCallsNeverRaise ==
    \A msg \in AddressedMessages :
        ((msg.type = "transcript" \/ (msg.type = "function-call"
                                       /\ msg.name # "bookAppointment"))
            /\ Matches(msg)) =>
        LET r == vapi_webhook(biz, calls, usage, msg) IN
        /\ r.resp.code = 200
        /\ r.calls = calls /\ r.usage = usage /\ r.appts = appts
        /\ (msg.type = "function-call"
              /\ msg.name \notin {"checkAvailability", "getBusinessInfo"}) =>
                 r.resp.out = <<"Function not recognized">>

\* C20: once an end-of-call report that carries a provider call id and names
\* the assistant of a Business has been handled, the Call of that provider
\* call id has appointment_booked true exactly when the lower-cased
\* transcript of the report contains one of the four booking phrases.
C20_FlagFollowsTranscript ==
    \A msg \in EndOfCallReports :
        (msg.id # ABSENT /\ msg.assistantId # ABSENT /\ Matches(msg)) =>
            LET r == vapi_webhook(biz, calls, usage, msg) IN
            \E i \in DOMAIN r.calls :
                /\ r.calls[i].vapi_call_id = msg.id
                /\ r.calls[i].appointment_booked
                     = (\E phrase \in BookingPhrases :
                            Contains(Lower(msg.transcript), phrase))

(***************************************************************************)
(* Properties of the appointments                                          *)
(***************************************************************************)
\* the status of the appointment with the given id in the rows, NULL if none
StatusOf(rows, id) ==
    IF \E i \in DOMAIN rows : rows[i].id = id
    THEN rows[CHOOSE i \in DOMAIN rows : rows[i].id = id].status
    ELSE NULL

\* C21: every Appointment's status is one of the five of AppointmentStatus;
\* an Appointment is created scheduled; and a step changes the status of an
\* Appointment only from scheduled to one of confirmed, completed, cancelled,
\* no_show.
C21_StatusOnlyLeavesScheduled ==
    [][ \A id \in ApptIds :
          LET before == StatusOf(appts, id)
              after == StatusOf(appts', id)
          IN  /\ after # NULL => after \in AppointmentStatus
              /\ (before = NULL /\ after # NULL) => after = "scheduled"
              /\ (before # NULL /\ after # NULL /\ after # before) =>
                    before = "scheduled" /\ after # "scheduled" ]_vars

(***************************************************************************)
(* The list endpoints and their pages                                      *)
(***************************************************************************)
\* the pages and the page sizes the list requests ask for
MaxPage == 3
Pages == 1 .. MaxPage
PerPages == {1, DefaultPerPage, MaxPerPage}

\* what "last" keeps of a list request: the digest, the filter and the body
Listed(resp, status) ==
    Digest(resp) @@ [status |-> status] @@
    (IF resp.code = 200 THEN resp.body
     ELSE [items |-> <<>>, total |-> 0, page |-> 0, per_page |-> 0, has_more |-> FALSE])

ListAppointments ==
    \E business_id \in TenantBizIds, user \in UserIds, page \in Pages,
       per_page \in PerPages, status \in {NULL, "scheduled"} :
      \E ordered \in Orderings(AppointmentsMatching(business_id, status)) :
        /\ last' = Listed(get_appointments(business_id, user, status, page,
                                           per_page, ordered), status)
        /\ UNCHANGED <<rate_limiter, traffic, env, clock, tokens, users, biz, calls, usage, appts, nAppt, nAsst, nCust, reqs>>

ListCalls ==
    \E business_id \in TenantBizIds, user \in UserIds, page \in Pages,
       per_page \in PerPages :
        /\ last' = Listed(get_calls(business_id, user, page, per_page), NULL)
        /\ UNCHANGED <<rate_limiter, traffic, env, clock, tokens, users, biz, calls, usage, appts, nAppt, nAsst, nCust, reqs>>

NextPages ==
    \/ ListAppointments
    \/ ListCalls
    \/ CreateAppointment
    \/ DeleteAppointment

SpecPages == InitTenants /\ [][NextPages]_vars

\* the rows a list of "total" rows holds, numbered in the query's order
MaxRows == 7
Numbered(total) == [i \in 1 .. total |-> i]

Min(a, b) == IF a <= b THEN a ELSE b

\* whether "body" is the page (page, per_page) of the rows "ordered": the
\* rows at the positions offset+1 .. min(offset+per_page, total), the total,
\* and has_more true exactly when offset + returned_count < total
IsPageOf(body, ordered, page, per_page) ==
    LET total == Len(ordered)
        offset == (page - 1) * per_page
        upto == Min(offset + per_page, total)
    IN  /\ body.total = total
        /\ Len(body.items) = IF upto > offset THEN upto - offset ELSE 0
        /\ \A k \in DOMAIN body.items : body.items[k] = ordered[offset + k]
        /\ body.has_more = ((offset + Len(body.items)) < total)

\* C22: a list response is the page asked for of the matching rows, in one
\* of the orders the query can return them in, with the total and has_more
\* of the claim; the same holds for lists of every length up to MaxRows; and
\* 45 rows with per_page 20 give 20/true, 20/true, 5/false on pages 1, 2, 3.
C22_PageContract ==
    /\ (last.op = "get_appointments" /\ last.code = 200) =>
          \E ordered \in Orderings(AppointmentsMatching(last.biz, last.status)) :
              IsPageOf(last, ordered, last.page, last.per_page)
    /\ (last.op = "get_calls" /\ last.code = 200) =>
          IsPageOf(last, CallsNewestFirst(last.biz), last.page, last.per_page)
    /\ \A total \in 0 .. MaxRows, page \in Pages, per_page \in PerPages :
          IsPageOf(Paginate(Numbered(total), page, per_page),
                   Numbered(total), page, per_page)
    /\ LET p1 == Paginate(Numbered(45), 1, 20)
           p2 == Paginate(Numbered(45), 2, 20)
           p3 == Paginate(Numbered(45), 3, 20)
       IN  /\ Len(p1.items) = 20 /\ p1.has_more
           /\ Len(p2.items) = 20 /\ p2.has_more
           /\ Len(p3.items) = 5 /\ ~p3.has_more

\* the second page of two appointments, one to the page, has been listed
C22_Witness ==
    /\ last.op = "get_appointments"
    /\ last.code = 200
    /\ last.page = 2
    /\ last.per_page = 1
    /\ last.total = 2
    /\ Len(last.items) = 1
    /\ ~last.has_more

(***************************************************************************)
(* The in-memory rate limiter and its middleware                           *)
(***************************************************************************)
\* the window every path class uses, in seconds
WindowSeconds == 60
\* the limits of the auth paths and of the default paths (10 and 100 in the
\* code), scaled down so that the limits are reached
AuthMaxRequests == 1
DefaultMaxRequests == 2
\* how far the wall clock moves in one step, and where the model stops it
TickSeconds == 30
MaxSeconds == 90
\* the checks a behaviour makes
MaxChecks == 4

LimiterConns == {1, 2}
Paths == {"/api/auth/login", "/api/business/1"}

\* rate_limit_middleware: the limits follow from the path
LimitsOf(path) ==
    IF path = "/api/auth/login"
    THEN [max_requests |-> AuthMaxRequests, window |-> WindowSeconds]
    ELSE [max_requests |-> DefaultMaxRequests, window |-> WindowSeconds]

\* the requests of a key still inside the window at "now"
CleanOld(times, now, window_seconds) ==
    SelectSeq(times, LAMBDA req_time : now - req_time < window_seconds)

is_rate_limited_AdmitsOneMore(requests, key, max_requests, window_seconds, now) ==
    LET cleaned == CleanOld(requests[key], now, window_seconds)
    IN  IF Len(cleaned) > max_requests
        THEN [requests |-> [requests EXCEPT ![key] = cleaned], limited |-> TRUE]
        ELSE [requests |-> [requests EXCEPT ![key] = Append(cleaned, now)],
              limited |-> FALSE]

\* RateLimiter.is_rate_limited, the body under the lock: clean, check, record
is_rate_limited(requests, key, max_requests, window_seconds, now) ==
    LET cleaned == CleanOld(requests[key], now, window_seconds)
    IN  IF Len(cleaned) >= max_requests
        THEN [requests |-> [requests EXCEPT ![key] = cleaned], limited |-> TRUE]
        ELSE [requests |-> [requests EXCEPT ![key] = Append(cleaned, now)],
              limited |-> FALSE]

IdleCheck == [pc |-> "idle", key |-> "", max_requests |-> 0, window |-> 0]

\* a request reaches the middleware: client address and limits are fixed,
\* then it waits for the limiter's lock
Arrive(c) ==
    \E ip \in ClientIps, path \in Paths :
        /\ traffic.at[c].pc = "idle"
        /\ Len(traffic.checked)
             + Cardinality({d \in LimiterConns : traffic.at[d].pc # "idle"}) < MaxChecks
        /\ traffic' = [traffic EXCEPT !.at[c] =
                          [pc |-> "waiting", key |-> ip,
                           max_requests |-> LimitsOf(path).max_requests,
                           window |-> LimitsOf(path).window]]
        /\ UNCHANGED <<rate_limiter, env, users, biz, calls, usage, appts, nAppt, clock,
                       tokens, nAsst, nCust, last, reqs>>

\* async with self.lock: entered only while no other check holds the lock
AcquireLock(c) ==
    /\ traffic.at[c].pc = "waiting"
    /\ rate_limiter.lock = {}
    /\ rate_limiter' = [rate_limiter EXCEPT !.lock = {c}]
    /\ traffic' = [traffic EXCEPT !.at[c].pc = "locked"]
    /\ UNCHANGED <<env, users, biz, calls, usage, appts, nAppt, clock,
                   tokens, nAsst, nCust, last, reqs>>

\* the body under the lock, the release, and the middleware's answer: 429
\* when limited, otherwise the request goes on to its handler
Decide(c) ==
    LET me == traffic.at[c]
        r == is_rate_limited(rate_limiter.requests, me.key, me.max_requests,
                             me.window, traffic.now)
    IN  /\ me.pc = "locked"
        /\ rate_limiter.lock = {c}
        /\ rate_limiter' = [requests |-> r.requests, lock |-> {}]
        /\ traffic' = [traffic EXCEPT
                          !.at[c] = IdleCheck,
                          !.checked = Append(@, [key |-> me.key, at |-> traffic.now,
                                                 max_requests |-> me.max_requests,
                                                 limited |-> r.limited])]
        /\ last' = IF r.limited
                   THEN [NoRequest EXCEPT !.op = "rate_limit_middleware", !.code = 429]
                   ELSE last
        /\ UNCHANGED <<env, users, biz, calls, usage, appts, nAppt, clock,
                       tokens, nAsst, nCust, reqs>>

\* time.time() moves on
TickWallClock ==
    /\ traffic.now + TickSeconds <= MaxSeconds
    /\ traffic' = [traffic EXCEPT !.now = @ + TickSeconds]
    /\ UNCHANGED <<rate_limiter, env, users, biz, calls, usage, appts, nAppt, clock,
                   tokens, nAsst, nCust, last, reqs>>

InitLimiter ==
    /\ users = {}
    /\ biz = <<>>
    /\ calls = <<>>
    /\ usage = <<>>
    /\ appts = <<>>
    /\ nAppt = 0
    /\ clock = 0
    /\ tokens = {}
    /\ nAsst = 0
    /\ nCust = 0
    /\ last = NoRequest
    /\ reqs = <<>>
    /\ rate_limiter = NewRateLimiter
    /\ traffic = [now |-> 0, at |-> [c \in LimiterConns |-> IdleCheck], checked |-> <<>>]
    /\ env = DefaultEnv

NextLimiter ==
    \/ \E c \in LimiterConns : Arrive(c)
    \/ \E c \in LimiterConns : AcquireLock(c)
    \/ \E c \in LimiterConns : Decide(c)
    \/ TickWallClock

SpecLimiter == InitLimiter /\ [][NextLimiter]_vars

\* the checks of "key" decided so far, and those of them that were admitted
\* at a time in the window [from, from + WindowSeconds)
ChecksOf(key) == { i \in DOMAIN traffic.checked : traffic.checked[i].key = key }
AdmittedIn(key, from) ==
    { i \in ChecksOf(key) :
        /\ ~traffic.checked[i].limited
        /\ from <= traffic.checked[i].at
        /\ traffic.checked[i].at < from + WindowSeconds }

\* the window starts that matter: a window holding admitted requests holds
\* no fewer of them when moved to start at the first of them
Starts == { traffic.checked[i].at : i \in DOMAIN traffic.checked }

\* all checks of "key" so far used the limit "max_requests"
SameLimits(key, max_requests) ==
    \A i \in ChecksOf(key) : traffic.checked[i].max_requests = max_requests

\* C23: for a key whose checks all used the same limits, no sliding window
\* holds more admitted requests than max_requests, however the checks of the
\* connections interleave; a check that is limited leaves the key's list as
\* the cleaned list, with nothing recorded; and a check never changes the
\* list of another key.
C23_WindowNeverExceeded ==
    /\ \A key \in ClientIps, max_requests \in {AuthMaxRequests, DefaultMaxRequests} :
          SameLimits(key, max_requests) =>
              \A from \in Starts :
                  Cardinality(AdmittedIn(key, from)) <= max_requests
    /\ \A key \in ClientIps, path \in Paths :
          LET lim == LimitsOf(path)
              r == is_rate_limited(rate_limiter.requests, key, lim.max_requests,
                                   lim.window, traffic.now)
          IN  /\ r.limited =>
                    r.requests[key] = CleanOld(rate_limiter.requests[key],
                                               traffic.now, lim.window)
              /\ r.limited => Len(r.requests[key]) <= Len(rate_limiter.requests[key])
              /\ \A other \in ClientIps \ {key} :
                    r.requests[other] = rate_limiter.requests[other]
    /\ \A key \in ClientIps :
          Len(rate_limiter.requests[key])
              <= Cardinality({ i \in ChecksOf(key) : ~traffic.checked[i].limited })

\* one address was limited after filling its window while the other address,
\* checked in between by the other connection, was admitted
C23_Witness ==
    \E key \in ClientIps, other \in ClientIps :
        /\ other # key
        /\ SameLimits(key, DefaultMaxRequests)
        /\ \E from \in Starts :
              Cardinality(AdmittedIn(key, from)) = DefaultMaxRequests
        /\ \E i \in ChecksOf(key) : traffic.checked[i].limited
        /\ \E j \in ChecksOf(other) : ~traffic.checked[j].limited

(***************************************************************************)
(* POST /api/admin/reset-db                                                *)
(***************************************************************************)
\* the environments the application is started with
Envs == [ADMIN_SECRET : {"", "s3cret"}, RAILWAY_ENVIRONMENT : {"", "production"}]

\* the headers of a reset request that the handler reads
ResetHeaders == [X_Admin_Secret : {ABSENT, "", "s3cret", "wrong"},
                 X_Force_Production : {ABSENT, "", "true"}]

\* the tables: their rows and the ids issued
Database == <<users, biz, calls, usage, appts, nAppt>>

\* Base.metadata.drop_all, then create_all: every table empty, ids start anew
Recreated == [users |-> {}, biz |-> <<>>, calls |-> <<>>, usage |-> <<>>,
              appts |-> <<>>, nAppt |-> 0]

reset_database_ComparesOnly(environ, headers) ==
    LET provided_secret == Get(headers, "X_Admin_Secret", "")
    IN  IF provided_secret # environ.ADMIN_SECRET
        THEN [code |-> 403, reset |-> FALSE]
        ELSE IF environ.RAILWAY_ENVIRONMENT # ""
                /\ ~Truthy(Get(headers, "X_Force_Production", NULL))
        THEN [code |-> 403, reset |-> FALSE]
        ELSE [code |-> 200, reset |-> TRUE]

\* reset_database: the two refusals, then the drop and the re-creation
reset_database(environ, headers) ==
    LET provided_secret == Get(headers, "X_Admin_Secret", "")
    IN  IF environ.ADMIN_SECRET = "" \/ provided_secret # environ.ADMIN_SECRET
        THEN [code |-> 403, reset |-> FALSE]
        ELSE IF environ.RAILWAY_ENVIRONMENT # ""
                /\ ~Truthy(Get(headers, "X_Force_Production", NULL))
        THEN [code |-> 403, reset |-> FALSE]
        ELSE [code |-> 200, reset |-> TRUE]

ResetDatabase ==
    \E headers \in ResetHeaders :
        LET r == reset_database(env, headers)
            db == IF r.reset THEN Recreated
                  ELSE [users |-> users, biz |-> biz, calls |-> calls, usage |-> usage,
                        appts |-> appts, nAppt |-> nAppt]
        IN  /\ users' = db.users
            /\ biz' = db.biz
            /\ calls' = db.calls
            /\ usage' = db.usage
            /\ appts' = db.appts
            /\ nAppt' = db.nAppt
            /\ last' = [op |-> "reset_database", code |-> r.code, biz |-> 0,
                        called |-> FALSE, headers |-> headers]
            /\ UNCHANGED <<rate_limiter, traffic, env, clock, tokens, nAsst, nCust, reqs>>

\* the seeded tenants, under each environment
InitAdmin ==
    /\ users = { NewUser(email, "pw1") : email \in VoiceEmails }
    /\ biz \in { <<Onboarded("owner@x.com", 1, AllOk), second>> :
                    second \in { Onboarded("second@x.com", 2, AllOk),
                                 Stepped("second@x.com") } }
    /\ calls = <<>>
    /\ usage = <<>>
    /\ appts = <<>>
    /\ nAppt = 0
    /\ clock = 0
    /\ tokens = { create_access_token(email, 0) : email \in VoiceEmails }
    /\ nAsst = Cardinality({b \in DOMAIN biz : Truthy(biz[b].vapi_assistant_id)})
    /\ nCust = Cardinality({b \in DOMAIN biz : Truthy(biz[b].stripe_customer_id)})
    /\ last = NoRequest
    /\ reqs = <<>>
    /\ rate_limiter = NewRateLimiter
    /\ traffic = NoTraffic
    /\ env \in Envs

NextAdmin ==
    \/ ResetDatabase
    \/ CreateAppointment
    \/ DeleteAppointment

SpecAdmin == InitAdmin /\ [][NextAdmin]_vars

\* the conditions of the claim under which a reset is allowed
ResetAllowed(headers) ==
    /\ env.ADMIN_SECRET # ""
    /\ headers.X_Admin_Secret = env.ADMIN_SECRET
    /\ env.RAILWAY_ENVIRONMENT # "" => headers.X_Force_Production # ABSENT

\* C24: a reset request changes the tables only when a non-empty ADMIN_SECRET
\* is configured, the X-Admin-Secret header equals it and, in production, the
\* X-Force-Production header is present; every other reset request is
\* answered 403 and leaves the tables as they were.
C24_ResetOnlyWithSecret ==
    [][ last'.op = "reset_database" =>
          /\ (Database' # Database \/ last'.code = 200) => ResetAllowed(last'.headers)
          /\ ~ResetAllowed(last'.headers) =>
                last'.code = 403 /\ Database' = Database ]_vars

\* in production, with the secret and the override header, the tables of the
\* seeded tenants were dropped and recreated
C24_Witness ==
    /\ last.op = "reset_database"
    /\ last.code = 200
    /\ env.RAILWAY_ENVIRONMENT = "production"
    /\ last.headers.X_Force_Production = "true"
    /\ users = {}
    /\ biz = <<>>

(***************************************************************************)
(* POST /api/onboarding/{business_id}/complete, two requests at once: each *)
(* request loads the Business in its own session, then runs the saga on    *)
(* the row it loaded and commits the columns it changed                    *)
(***************************************************************************)
MaxCompletes == 2
CompleteConns == 1 .. MaxCompletes

IdleComplete == [pc |-> "idle", loaded |-> <<>>]

\* the UPDATE a session's commit issues: the columns the run changed on the
\* row it loaded, written over the stored row
FlushChanged(stored, loaded, row) ==
    [f \in DOMAIN stored |-> IF row[f] # loaded[f] THEN row[f] ELSE stored[f]]

\* the request arrives: the Business is loaded, the early returns are taken
LoadForComplete(c) ==
    \E business_id \in BizIds, user \in UserIds :
        /\ reqs[c].pc = "idle"
        /\ IF RunsSaga(business_id, user)
           THEN /\ reqs' = [reqs EXCEPT ![c] =
                              [pc |-> "loaded", loaded |-> <<biz[business_id]>>]]
                /\ last' = last
           ELSE /\ reqs' = reqs
                /\ last' = Digest(complete_onboarding(business_id, user, NoCalls).resp)
        /\ UNCHANGED <<rate_limiter, traffic, env, users, biz, calls, usage, appts, nAppt,
                       clock, tokens, nAsst, nCust>>

\* the adapters are called on the loaded row, then the session commits
RunAndCommit(c) ==
    /\ reqs[c].pc = "loaded"
    /\ LET b0 == reqs[c].loaded[1]
           bid == CHOOSE i \in DOMAIN biz : biz[i].user_id = b0.user_id
       IN  \E o \in RunOutcomes(b0) :
             LET run == RunSaga(b0, o, AsstId(nAsst + 1), CustId(nCust + 1)) IN
             /\ biz' = [biz EXCEPT ![bid] = FlushChanged(biz[bid], b0, run.row)]
             /\ nAsst' = IF o.a = "ok" THEN nAsst + 1 ELSE nAsst
             /\ nCust' = IF o.c = "ok" THEN nCust + 1 ELSE nCust
             /\ last' = Digest(Response("complete", 200, bid, run.trace, NULL))
    /\ reqs' = [reqs EXCEPT ![c] = IdleComplete]
    /\ UNCHANGED <<rate_limiter, traffic, env, users, calls, usage, appts, nAppt,
                   clock, tokens>>

\* one user whose Business is in onboarding, with or without a notification
\* email, and no request in flight
InitComplete ==
    /\ users = { NewUser("owner@x.com", "pw1") }
    /\ biz \in { <<Stepped("owner@x.com")>>,
                 <<StepSaved(Stepped("owner@x.com"), 5,
                             [business_name |-> ABSENT, industry |-> ABSENT,
                              notification_email |-> "owner@x.com"])>> }
    /\ calls = <<>>
    /\ usage = <<>>
    /\ appts = <<>>
    /\ nAppt = 0
    /\ clock = 0
    /\ tokens = { create_access_token("owner@x.com", 0) }
    /\ nAsst = 0
    /\ nCust = 0
    /\ last = NoRequest
    /\ reqs = [c \in CompleteConns |-> IdleComplete]
    /\ rate_limiter = NewRateLimiter
    /\ traffic = NoTraffic
    /\ env = DefaultEnv

NextComplete ==
    \/ \E c \in CompleteConns : LoadForComplete(c)
    \/ \E c \in CompleteConns : RunAndCommit(c)

SpecComplete == InitComplete /\ [][NextComplete]_vars

\* C26 (as the spec has it): however two "complete" requests for the one
\* Business interleave, the providers have created at most one assistant and
\* at most one customer for it, and once no request is in flight the
\* assistant id stored is that of the only assistant created.
C26_OneAssistantCreated ==
    /\ nAsst <= 1
    /\ nCust <= 1
    /\ (nAsst = 1 /\ \A c \in CompleteConns : reqs[c].pc = "idle") =>
          biz[1].vapi_assistant_id = AsstId(1)

(***************************************************************************)
(* "complete" before the wizard's required fields are there                *)
(***************************************************************************)
\* C27: a "complete" by the owner of a Business in status onboarding whose
\* name or industry is empty is answered 400, calls no provider adapter and
\* leaves the Business, and the providers, as they were, whatever the
\* adapters would have answered.
C27_IncompleteIsRejected ==
    \A business_id \in BizIds, user \in UserIds :
        LET bid == get_business_for_user(business_id, user) IN
        (/\ bid # 0
         /\ biz[bid].status = "onboarding"
         /\ (~Truthy(biz[bid].name) \/ ~Truthy(biz[bid].industry))) =>
            \A o \in RunOutcomes(biz[bid]) \cup {NoCalls} :
                LET r == complete_onboarding(business_id, user, o) IN
                /\ r.resp.code = 400
                /\ r.resp.trace = <<>>
                /\ r.biz = biz
                /\ r.nAsst = nAsst
                /\ r.nCust = nCust

\* a "complete" was refused with 400 and the Business is still onboarding,
\* without an industry and without an assistant
C27_Witness ==
    /\ last.op = "complete"
    /\ last.code = 400
    /\ ~last.called
    /\ biz[last.biz].status = "onboarding"
    /\ ~Truthy(biz[last.biz].industry)
    /\ biz[last.biz].vapi_assistant_id = NULL

(***************************************************************************)
(* The order of the steps of one "complete" run                            *)
(***************************************************************************)
\* the steps in the order of the spec
SagaOrder ==
    << "create_assistant", "provision_phone_number", "create_customer",
       "create_subscription", "commit", "send_welcome_email" >>

PositionIn(order, step) == CHOOSE i \in DOMAIN order : order[i] = step

\* C28: the steps of every run are steps of SagaOrder, each at most once and
\* in that order; assistant, customer and commit are always there; the phone
\* is provisioned only when this run obtained an assistant id, the
\* subscription is created only when it obtained a customer id, and the
\* welcome email goes out only after the commit and only to a Business with
\* a notification email.
C28_StepsInOrder ==
    \A business_id \in BizIds, user \in UserIds :
        RunsSaga(business_id, user) =>
            \A o \in RunOutcomes(biz[business_id]) :
                LET r == complete_onboarding(business_id, user, o)
                    t == r.resp.trace
                    done == Range(t)
                IN  /\ done \subseteq Range(SagaOrder)
                    /\ \A i, j \in DOMAIN t :
                          i < j => PositionIn(SagaOrder, t[i]) < PositionIn(SagaOrder, t[j])
                    /\ {"create_assistant", "create_customer", "commit"} \subseteq done
                    /\ "provision_phone_number" \in done => o.a = "ok"
                    /\ "provision_phone_number" \in done <=>
                          Truthy(r.biz[business_id].vapi_assistant_id)
                    /\ "create_subscription" \in done <=> o.c = "ok"
                    /\ "send_welcome_email" \in done <=>
                          Truthy(biz[business_id].notification_email)
                    /\ r.biz[business_id].status = "active"

\* a run has made every step: the Business is active with an assistant, a
\* phone, a customer, a trial subscription and a notification email
C28_Witness ==
    /\ last.op = "complete"
    /\ last.code = 200
    /\ last.called
    /\ biz[last.biz].status = "active"
    /\ Truthy(biz[last.biz].vapi_assistant_id)
    /\ Truthy(biz[last.biz].vapi_phone_id)
    /\ Truthy(biz[last.biz].stripe_customer_id)
    /\ biz[last.biz].subscription_status = "trialing"
    /\ Truthy(biz[last.biz].notification_email)

(***************************************************************************)
(* Sequences of verified billing events                                    *)
(***************************************************************************)
\* the verified events of the sequences: every handled type and one that is
\* not handled, with the statuses a subscription object carries
SequenceEvents ==
    { Event(ty, c, st, ABSENT, ABSENT) :
        ty \in {"customer.subscription.created", "customer.subscription.updated"},
        c \in {CustId(1), CustId(2)}, st \in {ABSENT, "trialing", "past_due"} }
    \cup
    { Event(ty, c, ABSENT, ABSENT, ABSENT) :
        ty \in {"customer.subscription.deleted", "invoice.payment_succeeded",
                "invoice.payment_failed", "charge.refunded"},
        c \in {CustId(1), CustId(2)} }

\* what "last" keeps of a billing event: the digest, the event, and the
\* subscription_status the matched Business had before
Billed(resp, event, before) ==
    Digest(resp) @@ [event |-> event, before |-> before]

BillingEvent ==
    \E event \in SequenceEvents :
        LET r == stripe_webhook(biz, Signed(event)) IN
        /\ biz' = r.biz
        /\ last' = Billed(r.resp, event,
                          IF r.resp.biz # 0 THEN biz[r.resp.biz].subscription_status
                          ELSE NULL)
        /\ UNCHANGED <<rate_limiter, traffic, env, clock, tokens, appts, nAppt, users,
                       calls, usage, nAsst, nCust, reqs>>

NextBilling ==
    \/ BillingEvent

SpecBilling == InitTenants /\ [][NextBilling]_vars

\* the subscription_status an event of a handled type implies by itself
ImpliedStatus(event) ==
    IF event.type \in {"customer.subscription.created", "customer.subscription.updated"}
    THEN Get(event, "status", NULL)
    ELSE IF event.type = "customer.subscription.deleted" THEN "cancelled"
    ELSE IF event.type = "invoice.payment_succeeded" THEN "active"
    ELSE "past_due"

\* the Businesses of a billing customer
BusinessesOf(customer) ==
    { i \in DOMAIN biz : biz[i].stripe_customer_id = customer }

\* C29: after every verified event of a handled type for the customer of a
\* Business, that Business has the subscription_status the event implies,
\* whatever events came before and whatever the status was; an event of
\* another type leaves every Business as it was; so a cancelled Business is
\* active again after a later invoice.payment_succeeded.
C29_LastEventDecides ==
    /\ (/\ last.op = "stripe"
        /\ last.event.type \in HandledTypes
        /\ BusinessesOf(last.event.customer) # {}) =>
          /\ last.code = 200
          /\ BusinessesOf(last.event.customer) = {last.biz}
          /\ biz[last.biz].subscription_status = ImpliedStatus(last.event)
    /\ \A event \in SequenceEvents :
          LET r == stripe_webhook(biz, Signed(event)) IN
          IF event.type \in HandledTypes
          THEN \A i \in BusinessesOf(event.customer) :
                  /\ r.resp.code = 200
                  /\ r.biz[i].subscription_status = ImpliedStatus(event)
          ELSE r.biz = biz

\* a Business cancelled by subscription.deleted was set active by a payment
C29_Witness ==
    /\ last.op = "stripe"
    /\ last.event.type = "invoice.payment_succeeded"
    /\ last.before = "cancelled"
    /\ biz[last.biz].subscription_status = "active"

(***************************************************************************)
(* The wizard's step counter                                               *)
(***************************************************************************)
\* the steps the wizard's requests name: two that carry fields of the model,
\* one below the first step and one beyond the last
WizardSteps == StepNumbers \cup {0, 7}

\* what "last" keeps of a step save: the digest, the step, and the counter
\* the Business had before
Stepping(resp, step, before) == Digest(resp) @@ [step |-> step, before |-> before]

SaveWizardStep ==
    \E business_id \in BizIds, user \in UserIds, step \in WizardSteps :
      \E data \in StepData(step) :
        LET r == save_onboarding_step(business_id, user, step, data) IN
        /\ biz' = r.biz
        /\ last' = Stepping(r.resp, step,
                            IF r.resp.biz # 0 THEN biz[r.resp.biz].onboarding_step ELSE 0)
        /\ UNCHANGED <<rate_limiter, traffic, env, clock, tokens, appts, nAppt, users,
                       calls, usage, nAsst, nCust, reqs>>

NextWizard ==
    \/ Signup
    \/ SaveWizardStep
    \/ CompleteOnboarding

SpecWizard == Init /\ [][NextWizard]_vars

\* C30: no step of the system lowers a Business's onboarding_step; a step
\* save on a Business in onboarding leaves the counter at step + 1 when it
\* is answered 200 and the step is at least the counter, and leaves it as it
\* was otherwise; a step save on an active Business is answered 400 and
\* changes no row.
C30_StepCounterMonotone ==
    [][ /\ \A i \in DOMAIN biz :
              i \in DOMAIN biz' /\ biz'[i].onboarding_step >= biz[i].onboarding_step
        /\ \A business_id \in BizIds, user \in UserIds, step \in WizardSteps :
              \A data \in StepData(step) :
                LET bid == get_business_for_user(business_id, user)
                    r == save_onboarding_step(business_id, user, step, data)
                IN  bid # 0 =>
                      IF biz[bid].status = "active"
                      THEN r.resp.code = 400 /\ r.biz = biz
                      ELSE r.biz[bid].onboarding_step =
                              IF r.resp.code = 200 /\ step >= biz[bid].onboarding_step
                              THEN step + 1
                              ELSE biz[bid].onboarding_step ]_vars

\* a step below the counter was saved and the counter stayed where it was
C30_Witness ==
    /\ last.op = "step"
    /\ last.code = 200
    /\ last.step > 0
    /\ last.step < last.before
    /\ biz[last.biz].onboarding_step = last.before

====
